---- MODULE Spec2Model ----
(***************************************************************************)
(* sixpaths_kv: the single-node durable store.                             *)
(*                                                                         *)
(* Node (node.go) owns one WAL (wal.go) and one Store (store.go/apply.go). *)
(* The WAL file is modelled byte by byte (a sequence of 0..255) with the   *)
(* frame layout of Encode; replay runs readFrameAt/Decode over the bytes.  *)
(* Threads call Node.Exec and Node.Get concurrently; the process may be    *)
(* closed, crash (also in the middle of a frame write) and be re-opened,   *)
(* and the file may be damaged while the node is down.                     *)
(***************************************************************************)
EXTENDS Integers, Sequences, FiniteSets

(***************************************************************************)
(* Bounds of the model.                                                    *)
(***************************************************************************)
MaxAppends == 2      \* frame writes (whole, torn or failed) in one behaviour
MaxOpens == 1        \* Node.Open calls after the first construction
MaxSeq == 1          \* largest client sequence number submitted
MaxIndex == 3        \* largest lastlogi reached by direct calls of Store.Apply

(***************************************************************************)
(* Program constants.                                                      *)
(***************************************************************************)
CmdUnknown == 0
CmdPut == 1
CmdDelete == 2
MaxUint8 == 255
MaxUint16 == 65535
MaxFrameLen == 1073741824        \* uint32(math.Pow(2, 30))
walHeader == <<87, 65, 76, 118, 49, 45, 66, 69, 0>>   \* "WALv1-BE\x00"

Threads == {"t1", "t2"}
Readers == {"t2"}                \* the threads that call Get
NoThread == "none"

\* byte strings used as inputs
KeyK == <<107>>
KeyJ == <<106>>
ValV == <<118>>
ValW == <<119>>
ClientA == <<97>>
LongClient == [i \in 1..256 |-> 97]      \* one byte more than a u8 can count
Keys == {KeyK}
Values == {ValV, ValW}
Clients == {ClientA}
Seqs == 1..MaxSeq

Command(i, c, s, k, v) ==
    [Instruct |-> i, ClientID |-> c, Seq |-> s, Key |-> k, Value |-> v]

\* the commands threads submit: Put, Delete (value ignored), a Put with the
\* zero sequence number, one command with the unset instruction and one
\* whose ClientID is too long to encode
Commands ==
    {Command(CmdPut, c, s, k, v) : c \in Clients, s \in Seqs, k \in Keys, v \in Values}
    \cup {Command(CmdDelete, c, s, k, <<>>) : c \in Clients, s \in Seqs, k \in Keys}
    \cup {Command(CmdPut, ClientA, 0, KeyK, ValV)}
    \cup {Command(CmdUnknown, ClientA, MaxSeq, KeyK, <<>>)}
    \cup {Command(CmdPut, LongClient, MaxSeq, KeyK, ValV)}

validType(t) == t = CmdPut \/ t = CmdDelete

ZeroResult == [Success |-> FALSE, PrevValue |-> <<>>, LogIndex |-> 0]
ZeroDedup == [seq |-> 0, result |-> ZeroResult]
NoCmd == Command(CmdUnknown, <<>>, 0, <<>>, <<>>)

(***************************************************************************)
(* Bytes and big-endian integers.                                          *)
(***************************************************************************)
RECURSIVE BE(_, _)
\* binary.BigEndian.AppendUintNN: n as w bytes, most significant first
BE(n, w) == IF w = 0 THEN <<>> ELSE BE(n \div 256, w - 1) \o <<n % 256>>

RECURSIVE FromBE(_)
\* binary.BigEndian.UintNN
FromBE(s) ==
    IF s = <<>> THEN 0
    ELSE FromBE(SubSeq(s, 1, Len(s) - 1)) * 256 + s[Len(s)]

\* the Go slice b[lo:hi] of a byte sequence (0-based, hi exclusive)
Slice(b, lo, hi) == SubSeq(b, lo + 1, hi)

RECURSIVE Checksum(_, _)
Checksum(enc, acc) ==
    IF enc = <<>> THEN acc
    ELSE Checksum(Tail(enc), (acc * 31 + Head(enc) + 1) % 65536)

\* crc32.ChecksumIEEE (standard library): a checksum of the payload bytes.
\* Any change of one byte changes the value; the empty payload sums to 0.
ChecksumIEEE(enc) == Checksum(enc, 0)

(***************************************************************************)
(* wal.go: Encode / Decode                                                 *)
(***************************************************************************)
EncodePayload(rec) ==
    BE(rec.LogIndex, 8)
    \o <<rec.Cmd.Instruct>>
    \o <<Len(rec.Cmd.ClientID)>>
    \o rec.Cmd.ClientID
    \o BE(rec.Cmd.Seq, 8)
    \o BE(Len(rec.Cmd.Key), 2)
    \o rec.Cmd.Key
    \o BE(Len(rec.Cmd.Value), 4)
    \o rec.Cmd.Value

\* Encode: [err, frame]; frame = [u32 frameLen][u32 crc32][enc]
Encode(rec) ==
    IF rec.Cmd.Instruct # CmdPut /\ rec.Cmd.Instruct # CmdDelete
    THEN [err |-> TRUE, frame |-> <<>>]
    ELSE IF Len(rec.Cmd.ClientID) > MaxUint8
    THEN [err |-> TRUE, frame |-> <<>>]
    ELSE IF Len(rec.Cmd.Key) > MaxUint16
    THEN [err |-> TRUE, frame |-> <<>>]
    ELSE IF Len(rec.Cmd.Value) \div (MaxUint16 + 1) > MaxUint16
    THEN [err |-> TRUE, frame |-> <<>>]     \* len > math.MaxUint32
    ELSE LET framed(enc) ==
                 LET crc == ChecksumIEEE(enc)
                     frameLen == 4 + Len(enc)
                 IN [err |-> FALSE,
                     frame |-> BE(frameLen, 4) \o BE(crc, 4) \o enc]
         IN CHOOSE r \in {framed(enc) : enc \in {EncodePayload(rec)}} : TRUE

NoRecord == [LogIndex |-> 0, Cmd |-> NoCmd]

\* Decode: [err, rec]; every need(n) is a length check before the read
Decode(payload) ==
    LET len == Len(payload)
        need(off, n) == len - off >= n
        bad == [err |-> TRUE, rec |-> NoRecord]
    IN
    IF ~need(0, 8) THEN bad
    ELSE IF ~need(8, 1) THEN bad
    ELSE IF ~validType(payload[9]) THEN bad
    ELSE IF ~need(9, 1) THEN bad
    ELSE LET clientidlen == payload[10]
             o1 == 10
         IN
         IF ~need(o1, clientidlen) THEN bad
         ELSE LET o2 == o1 + clientidlen IN
         IF ~need(o2, 8) THEN bad
         ELSE LET o3 == o2 + 8 IN
         IF ~need(o3, 2) THEN bad
         ELSE LET keylen == FromBE(Slice(payload, o3, o3 + 2))
                  o4 == o3 + 2
              IN
         IF ~need(o4, keylen) THEN bad
         ELSE LET o5 == o4 + keylen IN
         IF ~need(o5, 4) THEN bad
         ELSE LET valuelen == FromBE(Slice(payload, o5, o5 + 4))
                  o6 == o5 + 4
              IN
         IF ~need(o6, valuelen) THEN bad
         ELSE [err |-> FALSE,
               rec |-> [LogIndex |-> FromBE(Slice(payload, 0, 8)),
                        Cmd |-> Command(payload[9],
                                        Slice(payload, o1, o2),
                                        FromBE(Slice(payload, o2, o3)),
                                        Slice(payload, o4, o5),
                                        Slice(payload, o6, o6 + valuelen))]]

(***************************************************************************)
(* wal.go: readFrameAt / ReplayAll / NewWAL                                *)
(***************************************************************************)
Min(a, b) == IF a < b THEN a ELSE b
Max(a, b) == IF a > b THEN a ELSE b

\* os.File.ReadAt(buf of n bytes, off): the bytes read and io.EOF when fewer
\* than n bytes are left
ReadAt(f, off, n) ==
    LET got == Min(n, Max(0, Len(f) - off))
    IN [n |-> got, eof |-> got < n, bytes |-> Slice(f, off, off + got)]

\* what goes wrong with the disk while ReplayAll runs: nothing, or one call
\* returns an error that is neither io.EOF nor io.ErrUnexpectedEOF: the
\* ReadAt of the frameLen ("hdr") or of the body ("body") of frame number
\* `frame`, the Truncate, the Sync, or the Seek
NoFault == [op |-> "none", frame |-> 0, part |-> "ok"]
ReadFault(k, part) == [op |-> "ReadAt", frame |-> k, part |-> part]
CallFault(op) == [op |-> op, frame |-> 0, part |-> "ok"]

\* readFrameAt: [err, enc, n], err one of "nil", "EOF", "UnexpectedEOF",
\* "corrupt", "io"; io tells which ReadAt, if any, fails hard
readFrameAt(f, offset, io) ==
    LET hdr == ReadAt(f, offset, 4)
        fail(e) == [err |-> e, enc |-> <<>>, n |-> 0]
    IN
    IF io = "hdr" THEN fail("io")
    ELSE IF hdr.eof THEN fail("EOF")
    ELSE IF hdr.n < 4 THEN fail("UnexpectedEOF")
    ELSE LET frameLen == FromBE(hdr.bytes) IN
         IF frameLen < 4 THEN fail("corrupt")
         ELSE IF MaxFrameLen < frameLen THEN fail("corrupt")
         ELSE LET frameBody == ReadAt(f, offset + 4, frameLen) IN
              IF io = "body" THEN fail("io")
              ELSE IF frameBody.eof THEN fail("UnexpectedEOF")
              ELSE IF frameBody.n < frameLen THEN fail("UnexpectedEOF")
              ELSE LET crcCheck == FromBE(Slice(frameBody.bytes, 0, 4))
                       enc == Slice(frameBody.bytes, 4, frameLen)
                       got == ChecksumIEEE(enc)
                   IN IF got # crcCheck THEN fail("corrupt")
                      ELSE [err |-> "nil", enc |-> enc, n |-> 4 + frameLen]

RECURSIVE ReplayLoopSkip(_, _, _, _, _)
\* a replay loop that steps over a frame it cannot decode and resumes at
\* the frame behind it
ReplayLoopSkip(f, off, out, lastIndex, fault) ==
    LET fr == readFrameAt(f, off, "ok")
        stop(repair) == [recs |-> out, lastIndex |-> lastIndex,
                         lastGood |-> off, repairNeeded |-> repair,
                         fatal |-> FALSE]
    IN
    IF fr.err # "nil" THEN stop(fr.err # "EOF")
    ELSE LET d == Decode(fr.enc) IN
         IF d.err THEN ReplayLoopSkip(f, off + fr.n, out, lastIndex, fault)
         ELSE ReplayLoopSkip(f, off + fr.n, Append(out, d.rec),
                             d.rec.LogIndex, fault)

RECURSIVE ReplayLoopIoRepairs(_, _, _, _, _)
\* a replay loop that takes a failed read for a corrupt frame
ReplayLoopIoRepairs(f, off, out, lastIndex, fault) ==
    LET io == IF fault.op = "ReadAt" /\ fault.frame = Len(out)
              THEN fault.part ELSE "ok"
        fr == readFrameAt(f, off, io)
        stop(repair, fatal) == [recs |-> out, lastIndex |-> lastIndex,
                                lastGood |-> off, repairNeeded |-> repair,
                                fatal |-> fatal]
    IN
    IF fr.err # "nil" THEN stop(fr.err # "EOF", FALSE)
    ELSE LET d == Decode(fr.enc) IN
         IF d.err THEN stop(TRUE, FALSE)
         ELSE ReplayLoopIoRepairs(f, off + fr.n, Append(out, d.rec),
                                  d.rec.LogIndex, fault)

RECURSIVE ReplayLoop(_, _, _, _, _)
\* the for loop of ReplayAll: [recs, lastIndex, lastGood, repairNeeded,
\* fatal]; fatal is the return from inside the loop
ReplayLoop(f, off, out, lastIndex, fault) ==
    LET io == IF fault.op = "ReadAt" /\ fault.frame = Len(out)
              THEN fault.part ELSE "ok"
        fr == readFrameAt(f, off, io)
        stop(repair, fatal) == [recs |-> out, lastIndex |-> lastIndex,
                                lastGood |-> off, repairNeeded |-> repair,
                                fatal |-> fatal]
    IN
    IF fr.err = "io" THEN stop(TRUE, TRUE)
    ELSE IF fr.err # "nil" THEN stop(fr.err # "EOF", FALSE)
    ELSE LET d == Decode(fr.enc) IN
         IF d.err THEN stop(TRUE, FALSE)
         ELSE ReplayLoop(f, off + fr.n, Append(out, d.rec), d.rec.LogIndex,
                         fault)

\* what ReplayAll leaves behind after its loop: [err, recs, lastIndex, file,
\* cursor, offset]; err is "nil" or the call whose error is returned
ReplayEnd(f, r, fault) ==
    LET out(e, g) == [err |-> e, recs |-> r.recs, lastIndex |-> r.lastIndex,
                      file |-> g, cursor |-> r.lastGood, offset |-> r.lastGood]
        cut == Slice(f, 0, r.lastGood)
    IN
    IF r.fatal THEN out("ReadAt", f)
    ELSE IF r.repairNeeded
    THEN IF fault.op = "Truncate" THEN out("Truncate", f)
         ELSE IF fault.op \in {"Sync", "Seek"} THEN out(fault.op, cut)
         ELSE out("nil", cut)
    ELSE IF fault.op = "Seek" THEN out("Seek", f)
         ELSE out("nil", f)

\* a ReplayAll that forgets the index of the last record it decoded
ReplayAllNoIndex(f, hdrLen, fault) ==
    LET r == ReplayLoop(f, hdrLen, <<>>, 0, fault)
    IN [ReplayEnd(f, r, fault) EXCEPT !.lastIndex = 0]

\* a ReplayAll that always repairs and whose lastGood is never moved past
\* the header
ReplayAllStaleGood(f, hdrLen, fault) ==
    LET r == ReplayLoop(f, hdrLen, <<>>, 0, fault)
    IN [err |-> "nil", recs |-> r.recs, lastIndex |-> r.lastIndex,
        file |-> Slice(f, 0, hdrLen), cursor |-> hdrLen, offset |-> hdrLen]

\* ReplayAll that rewinds the write cursor to the start of the frames
\* instead of seeking to lastGood
ReplayAllSeekStart(f, hdrLen, fault) ==
    LET r == ReplayLoop(f, hdrLen, <<>>, 0, fault)
    IN [ReplayEnd(f, r, fault) EXCEPT !.cursor = hdrLen]

\* ReplayAll on an open WAL: the error, the records, the last index, and
\* the file, write cursor and offset field it leaves behind
ReplayAll(f, hdrLen, fault) ==
    LET r == ReplayLoop(f, hdrLen, <<>>, 0, fault)
    IN ReplayEnd(f, r, fault)

\* a NewWAL that starts a new log over a file it does not recognise
NewWALRewrite(f) ==
    IF Len(f) <= 0
    THEN [err |-> FALSE, file |-> walHeader,
          cursor |-> Len(walHeader), offset |-> Len(walHeader)]
    ELSE LET hdr == ReadAt(f, 0, Len(walHeader)) IN
         IF hdr.eof \/ hdr.bytes # walHeader
         THEN [err |-> FALSE, file |-> walHeader,
               cursor |-> Len(walHeader), offset |-> Len(walHeader)]
         ELSE [err |-> FALSE, file |-> f, cursor |-> Len(f), offset |-> Len(f)]

\* NewWAL: [err, file, cursor, offset]
NewWAL(f) ==
    IF Len(f) <= 0
    THEN [err |-> FALSE, file |-> walHeader,
          cursor |-> Len(walHeader), offset |-> Len(walHeader)]
    ELSE LET hdr == ReadAt(f, 0, Len(walHeader)) IN
         IF hdr.eof \/ hdr.bytes # walHeader
         THEN [err |-> TRUE, file |-> f, cursor |-> 0, offset |-> 0]
         ELSE [err |-> FALSE, file |-> f, cursor |-> Len(f), offset |-> Len(f)]

\* WAL.Close: bw.Flush() returns the error wal.bw holds, f.Sync() fails on a
\* file that is already closed, f.Close() closes it; the first error is
\* returned and the steps after it are skipped
WALClose(closed, sticky) ==
    IF sticky THEN [err |-> TRUE, closed |-> closed]
    ELSE IF closed THEN [err |-> TRUE, closed |-> closed]
    ELSE [err |-> FALSE, closed |-> TRUE]

\* a write of bytes b through the file's cursor (the file is not opened
\* with O_APPEND): bytes under the cursor are overwritten
WriteAtCursor(f, cur, b) ==
    Slice(f, 0, cur) \o b
    \o (IF cur + Len(b) < Len(f) THEN Slice(f, cur + Len(b), Len(f)) ELSE <<>>)

(***************************************************************************)
(* store.go / apply.go: the Store                                          *)
(***************************************************************************)
EmptyMap == [x \in {} |-> <<>>]

MapPut(m, k, v) == [x \in DOMAIN m \cup {k} |-> IF x = k THEN v ELSE m[x]]
MapDelete(m, k) == [x \in DOMAIN m \ {k} |-> m[x]]

\* a Go map read of an absent client yields the zero Dedup
DedupAt(dm, c) == IF c \in DOMAIN dm THEN dm[c] ELSE ZeroDedup

NewStore == [kv |-> EmptyMap, lastlogi |-> 0, dedupMap |-> EmptyMap]

\* a Put that reports success but leaves the value of an existing key
ApplyPutKeepOld(s, cmd, logindex) ==
    LET ok == cmd.Key \in DOMAIN s.kv
    IN [store |-> [s EXCEPT !.kv = IF ok THEN s.kv
                                   ELSE MapPut(s.kv, cmd.Key, cmd.Value),
                            !.lastlogi = logindex],
        res |-> [Success |-> TRUE,
                 PrevValue |-> IF ok THEN s.kv[cmd.Key] ELSE <<>>,
                 LogIndex |-> logindex],
        err |-> FALSE]

\* a Put that never reports the value it overwrote
ApplyPutNoPrev(s, cmd, logindex) ==
    [store |-> [s EXCEPT !.kv = MapPut(s.kv, cmd.Key, cmd.Value),
                         !.lastlogi = logindex],
     res |-> [Success |-> TRUE, PrevValue |-> <<>>, LogIndex |-> logindex],
     err |-> FALSE]

\* the CmdPut case of Store.Apply
ApplyPut(s, cmd, logindex) ==
    LET ok == cmd.Key \in DOMAIN s.kv
        input == cmd.Value
    IN [store |-> [s EXCEPT !.kv = MapPut(s.kv, cmd.Key, input),
                            !.lastlogi = logindex],
        res |-> [Success |-> TRUE,
                 PrevValue |-> IF ok THEN s.kv[cmd.Key] ELSE <<>>,
                 LogIndex |-> logindex],
        err |-> FALSE]

\* a Delete that reports success but leaves the mapping in place
ApplyDeleteKeep(s, cmd, logindex) ==
    IF cmd.Key \notin DOMAIN s.kv
    THEN [store |-> s,
          res |-> [Success |-> FALSE, PrevValue |-> <<>>, LogIndex |-> logindex],
          err |-> TRUE]
    ELSE [store |-> [s EXCEPT !.lastlogi = logindex],
          res |-> [Success |-> TRUE, PrevValue |-> s.kv[cmd.Key],
                   LogIndex |-> logindex],
          err |-> FALSE]

\* the CmdDelete case of Store.Apply
ApplyDelete(s, cmd, logindex) ==
    IF cmd.Key \notin DOMAIN s.kv
    THEN [store |-> s,
          res |-> [Success |-> FALSE, PrevValue |-> <<>>, LogIndex |-> logindex],
          err |-> TRUE]
    ELSE [store |-> [s EXCEPT !.kv = MapDelete(s.kv, cmd.Key),
                              !.lastlogi = logindex],
          res |-> [Success |-> TRUE, PrevValue |-> s.kv[cmd.Key],
                   LogIndex |-> logindex],
          err |-> FALSE]

\* an Apply whose duplicate path returns the entry found under the
\* command's key
ApplyDedupByKey(s, cmd, logindex) ==
    LET r == [Success |-> FALSE, PrevValue |-> <<>>, LogIndex |-> logindex]
    IN
    IF logindex # s.lastlogi + 1
    THEN [store |-> s, res |-> r, err |-> TRUE]
    ELSE IF cmd.Seq <= DedupAt(s.dedupMap, cmd.ClientID).seq
    THEN [store |-> s, res |-> DedupAt(s.dedupMap, cmd.Key).result,
          err |-> FALSE]
    ELSE IF cmd.Instruct = CmdPut THEN ApplyPut(s, cmd, logindex)
    ELSE IF cmd.Instruct = CmdDelete THEN ApplyDelete(s, cmd, logindex)
    ELSE [store |-> s, res |-> r, err |-> TRUE]

\* Store.Apply under the store lock: [store, res, err]
Apply(s, cmd, logindex) ==
    LET r == [Success |-> FALSE, PrevValue |-> <<>>, LogIndex |-> logindex]
    IN
    IF logindex # s.lastlogi + 1
    THEN [store |-> s, res |-> r, err |-> TRUE]
    ELSE IF cmd.Seq <= DedupAt(s.dedupMap, cmd.ClientID).seq
    THEN [store |-> s, res |-> DedupAt(s.dedupMap, cmd.ClientID).result,
          err |-> FALSE]
    ELSE IF cmd.Instruct = CmdPut THEN ApplyPut(s, cmd, logindex)
    ELSE IF cmd.Instruct = CmdDelete THEN ApplyDelete(s, cmd, logindex)
    ELSE [store |-> s, res |-> r, err |-> TRUE]

\* a Get that reports an absent key as an empty value
StoreGetNoError(s, key) ==
    IF key \notin DOMAIN s.kv THEN [val |-> <<>>, err |-> FALSE]
    ELSE [val |-> s.kv[key], err |-> FALSE]

\* Store.Get under the store lock: [val, err]
StoreGet(s, key) ==
    IF key \notin DOMAIN s.kv THEN [val |-> <<>>, err |-> TRUE]
    ELSE [val |-> s.kv[key], err |-> FALSE]

(***************************************************************************)
(* node.go: OpenNode                                                       *)
(***************************************************************************)
RECURSIVE ApplyAll(_, _)
\* the replay loop of OpenNode: [err, store]
ApplyAll(s, recs) ==
    IF recs = <<>> THEN [err |-> FALSE, store |-> s]
    ELSE LET a == Apply(s, Head(recs).Cmd, Head(recs).LogIndex) IN
         IF a.err THEN [err |-> TRUE, store |-> a.store]
         ELSE ApplyAll(a.store, Tail(recs))

\* an OpenNode whose deferred Close does not see the error of Apply
OpenNodeLeak(f, fault) ==
    LET w == NewWAL(f)
        failed(g, why, c) ==
            [err |-> TRUE, why |-> why, file |-> g, cursor |-> 0,
             offset |-> 0, store |-> NewStore, last |-> 0, closed |-> c]
        replayed(rp) ==
            IF rp.err # "nil"
            THEN failed(rp.file, rp.err, WALClose(FALSE, FALSE).closed)
            ELSE LET ap == ApplyAll(NewStore, rp.recs)
                 IN IF ap.err THEN failed(rp.file, "Apply", FALSE)
                    ELSE [err |-> FALSE, why |-> "", file |-> rp.file,
                          cursor |-> rp.cursor, offset |-> rp.offset,
                          store |-> ap.store, last |-> rp.lastIndex,
                          closed |-> FALSE]
    IN
    IF w.err THEN failed(f, "NewWAL", FALSE)
    ELSE CHOOSE o \in {replayed(rp) :
                          rp \in {ReplayAll(wf, Len(walHeader), fault) :
                                     wf \in {w.file}}} : TRUE

\* OpenNode on a data directory whose wal file holds f:
\* [err, why, file, cursor, offset, store, last, closed]; why names the step
\* whose error is returned, closed tells whether
\* the deferred nwal.Close() closed the file (nothing is buffered and the
\* WAL was not closed before). A failure of NewWAL returns before there
\* is a WAL to close: the os.File it opened stays open
OpenNode(f, fault) ==
    LET w == NewWAL(f)
        failed(g, why, c) ==
            [err |-> TRUE, why |-> why, file |-> g, cursor |-> 0,
             offset |-> 0, store |-> NewStore, last |-> 0, closed |-> c]
        replayed(rp) ==
            IF rp.err # "nil"
            THEN failed(rp.file, rp.err, WALClose(FALSE, FALSE).closed)
            ELSE LET ap == ApplyAll(NewStore, rp.recs)
                 IN IF ap.err
                    THEN failed(rp.file, "Apply", WALClose(FALSE, FALSE).closed)
                    ELSE [err |-> FALSE, why |-> "", file |-> rp.file,
                          cursor |-> rp.cursor, offset |-> rp.offset,
                          store |-> ap.store, last |-> rp.lastIndex,
                          closed |-> FALSE]
    IN
    IF w.err THEN failed(f, "NewWAL", FALSE)
    ELSE CHOOSE o \in {replayed(rp) :
                          rp \in {ReplayAll(wf, Len(walHeader), fault) :
                                     wf \in {w.file}}} : TRUE

(***************************************************************************)
(* State                                                                   *)
(***************************************************************************)
VARIABLES
    file,       \* bytes of <dataDir>/wal on disk
    cursor,     \* write position of the open file (WAL.f)
    offset,     \* WAL.offset
    bwErr,      \* wal.bw holds an error: bufio.Writer keeps the first write
                \* error and returns it from every later Write and Flush
    phase,      \* "up", "closed" (after Node.Close), "down" (crashed),
                \* "failed" (OpenNode returned an error and closed the WAL),
                \* "leaked" (OpenNode returned an error, the file is
                \* still open)
    kv,         \* Store.kv
    lastlogi,   \* Store.lastlogi (lastApplied)
    dedupMap,   \* Store.dedupMap
    last,       \* Node.last (lastIndex)
    mu,         \* holder of Node.mu
    storeMu,    \* holder of Store.mu
    pc,         \* position of each thread in Exec / Get
    cmd,        \* the Command of the thread's Exec
    nextIdx,    \* nextIdx of the thread's Exec
    ap,         \* the ApplyResult ap of the thread's Exec
    getKey,     \* the key of the thread's Get
    ret,        \* the most recent return of Exec, Get or Close
    pre,        \* what the last caller of Exec (or of Store.Apply) found
                \* when its call began; after OpenNode, the file it found
    acked,      \* commands whose Exec returned success, in order of return
    ackVal,     \* per key: what the last acknowledged write left there
    getExp,     \* per thread in Get: the acknowledged value when it started
    tamper,     \* damage done to the file while the node was not running,
                \* then whether the Open that followed truncated the file
    appends,    \* number of frame writes so far
    opens,      \* number of Node.Open calls so far
    http,       \* the HTTP request on its way through the router and a node
    execd,      \* the calls of Node.Exec and Node.Get made by HTTP handlers
    mem         \* the arrays behind the []byte values of Store.kv and of a
                \* caller of the Store, followed where that caller is
                \* followed slice by slice

storeVars == <<kv, lastlogi, dedupMap>>
walVars == <<file, cursor, offset, bwErr>>
threadVars == <<pc, cmd, nextIdx, ap, getKey>>
ghostVars == <<acked, ackVal, getExp, tamper>>
countVars == <<appends, opens>>
routerVars == <<http, execd>>
otherVars == <<routerVars, mem>>
vars == <<file, cursor, offset, bwErr, phase, kv, lastlogi, dedupMap, last,
          mu, storeMu, pc, cmd, nextIdx, ap, getKey, ret, pre, acked, ackVal,
          getExp, tamper, appends, opens, http, execd, mem>>

Store == [kv |-> kv, lastlogi |-> lastlogi, dedupMap |-> dedupMap]

\* what an acknowledged write left at a key: nothing is known, the key is
\* absent, or the key holds v
Unacked == [known |-> FALSE, found |-> FALSE, val |-> <<>>]
NotFound == [known |-> TRUE, found |-> FALSE, val |-> <<>>]
AckedValue(v) == [known |-> TRUE, found |-> TRUE, val |-> v]

NoRet == [op |-> "none", at |-> "", cmd |-> NoCmd, key |-> <<>>,
          res |-> ZeroResult, val |-> <<>>, err |-> FALSE, hit |-> FALSE,
          size |-> 0, exp |-> Unacked]
NoTamper == [kind |-> "none", good |-> 0, nrecs |-> 0]

\* the fields of Node, Store and WAL as a caller finds them
Snapshot ==
    [held |-> TRUE, file |-> file, offset |-> offset, last |-> last, kv |-> kv,
     lastlogi |-> lastlogi, dedupMap |-> dedupMap]
NoPre ==
    [held |-> FALSE, file |-> <<>>, offset |-> 0, last |-> 0, kv |-> EmptyMap,
     lastlogi |-> 0, dedupMap |-> EmptyMap]

\* no array has been allocated; slice 0 is the nil slice
NoBuf == 0
NoMem == [bytes |-> <<>>, kv |-> EmptyMap, dedup |-> EmptyMap,
          passed |-> {}, received |-> {}, touched |-> {}]

\* no request is on its way
NoReq == [method |-> "", path |-> "", client |-> <<>>, seq |-> 0, key |-> <<>>]
NoHttp == [stage |-> "none", req |-> NoReq, node |-> -1, npath |-> "",
           status |-> 0]

\* the records of the valid frames at the head of a file, and where they end
DiskRecords(f) == ReplayLoop(f, Len(walHeader), <<>>, 0, NoFault).recs
GoodEnd(f) == ReplayLoop(f, Len(walHeader), <<>>, 0, NoFault).lastGood
CleanTail(f) == GoodEnd(f) = Len(f)

\* the Node, its WAL and the callers after OpenNode on a fresh data
\* directory, all but the dedup table of the Store
InitNode ==
    /\ file = walHeader
    /\ cursor = Len(walHeader)
    /\ offset = Len(walHeader)
    /\ bwErr = FALSE
    /\ phase = "up"
    /\ kv = EmptyMap
    /\ lastlogi = 0
    /\ last = 0
    /\ mu = NoThread
    /\ storeMu = NoThread
    /\ pc = [t \in Threads |-> "idle"]
    /\ cmd = [t \in Threads |-> NoCmd]
    /\ nextIdx = [t \in Threads |-> 0]
    /\ ap = [t \in Threads |-> ZeroResult]
    /\ getKey = [t \in Threads |-> <<>>]
    /\ ret = NoRet
    /\ pre = NoPre
    /\ acked = <<>>
    /\ ackVal = [k \in Keys |-> Unacked]
    /\ getExp = [t \in Threads |-> Unacked]
    /\ tamper = NoTamper
    /\ appends = 0
    /\ opens = 0
    /\ http = NoHttp
    /\ execd = {}
    /\ mem = NoMem

\* the state after OpenNode on a fresh data directory: NewStore makes an
\* empty dedupMap
Init ==
    /\ InitNode
    /\ dedupMap = EmptyMap

(***************************************************************************)
(* Node.Exec, step by step                                                 *)
(***************************************************************************)
\* what a caller of Exec gets back, and the step of Exec that returned it
ExecRet(t, res, err, hit) ==
    [op |-> "exec", at |-> pc[t], cmd |-> cmd[t], key |-> cmd[t].Key, res |-> res,
     val |-> <<>>, err |-> err, hit |-> hit, size |-> Len(file),
     exp |-> Unacked]

\* the thread leaves Exec: the deferred n.mu.Unlock() runs
ExecLeave(t) ==
    /\ pc' = [pc EXCEPT ![t] = "idle"]
    /\ cmd' = [cmd EXCEPT ![t] = NoCmd]
    /\ nextIdx' = [nextIdx EXCEPT ![t] = 0]
    /\ ap' = [ap EXCEPT ![t] = ZeroResult]
    /\ mu' = NoThread
    /\ pre' = pre

\* an Exec that does not wait for Node.mu
ExecNoLock(t, c) ==
    /\ phase = "up"
    /\ pc[t] = "idle"
    /\ mu' = t
    /\ pc' = [pc EXCEPT ![t] = "peekLock"]
    /\ cmd' = [cmd EXCEPT ![t] = c]
    /\ pre' = Snapshot
    /\ UNCHANGED <<walVars, phase, storeVars, last, storeMu, nextIdx, ap,
                   getKey, ret, ghostVars, countVars>>
    /\ UNCHANGED otherVars

\* the call of Exec and n.mu.Lock(): a caller that waits for the lock is in
\* the same state as one that has not called yet
ExecLock(t, c) ==
    /\ phase = "up"
    /\ pc[t] = "idle"
    /\ mu = NoThread
    /\ mu' = t
    /\ pc' = [pc EXCEPT ![t] = "peekLock"]
    /\ cmd' = [cmd EXCEPT ![t] = c]
    /\ pre' = Snapshot
    /\ UNCHANGED <<walVars, phase, storeVars, last, storeMu, nextIdx, ap,
                   getKey, ret, ghostVars, countVars>>
    /\ UNCHANGED otherVars

\* n.store.mu.Lock() before the dedup peek
PeekLock(t) ==
    /\ pc[t] = "peekLock"
    /\ storeMu = NoThread
    /\ storeMu' = t
    /\ pc' = [pc EXCEPT ![t] = "peek"]
    /\ UNCHANGED <<walVars, phase, storeVars, last, mu, cmd, nextIdx, ap,
                   getKey, ret, pre, ghostVars, countVars>>
    /\ UNCHANGED otherVars

\* a duplicate test that misses a retry of the last sequence number
IsDuplicateStrict(dm, c) == DedupAt(dm, c.ClientID).seq > c.Seq

\* the duplicate test of Exec
IsDuplicate(dm, c) == DedupAt(dm, c.ClientID).seq >= c.Seq

\* a peek that unlocks the store only on the duplicate path and walks
\* into Append with the store lock held
PeekKeepLock(t) ==
    /\ pc[t] = "peek"
    /\ IF IsDuplicate(dedupMap, cmd[t])
       THEN /\ ret' = ExecRet(t, DedupAt(dedupMap, cmd[t].ClientID).result,
                              FALSE, TRUE)
            /\ ExecLeave(t)
            /\ storeMu' = NoThread
       ELSE /\ pc' = [pc EXCEPT ![t] = "validate"]
            /\ UNCHANGED <<ret, cmd, nextIdx, ap, mu, pre, storeMu>>
    /\ UNCHANGED <<walVars, phase, storeVars, last, getKey, ghostVars,
                   countVars>>
    /\ UNCHANGED otherVars

\* the dedup peek: a duplicate returns the stored result, both locks released
\* by the deferred unlocks; otherwise the store lock is released
Peek(t) ==
    /\ pc[t] = "peek"
    /\ storeMu' = NoThread
    /\ IF IsDuplicate(dedupMap, cmd[t])
       THEN /\ ret' = ExecRet(t, DedupAt(dedupMap, cmd[t].ClientID).result,
                              FALSE, TRUE)
            /\ ExecLeave(t)
       ELSE /\ pc' = [pc EXCEPT ![t] = "validate"]
            /\ UNCHANGED <<ret, cmd, nextIdx, ap, mu, pre>>
    /\ UNCHANGED <<walVars, phase, storeVars, last, getKey, ghostVars,
                   countVars>>
    /\ UNCHANGED otherVars

\* an Exec that goes from the type check straight to Store.Apply
ValidateSkipAppend(t) ==
    /\ pc[t] = "validate"
    /\ IF ~validType(cmd[t].Instruct)
       THEN /\ ret' = ExecRet(t, ZeroResult, TRUE, FALSE)
            /\ ExecLeave(t)
       ELSE /\ nextIdx' = [nextIdx EXCEPT ![t] = last + 1]
            /\ pc' = [pc EXCEPT ![t] = "applyLock"]
            /\ UNCHANGED <<ret, cmd, ap, mu, pre>>
    /\ UNCHANGED <<walVars, phase, storeVars, last, storeMu, getKey,
                   ghostVars, countVars>>
    /\ UNCHANGED otherVars

\* validType(cmd.Instruct), then nextIdx := n.last + 1
Validate(t) ==
    /\ pc[t] = "validate"
    /\ IF ~validType(cmd[t].Instruct)
       THEN /\ ret' = ExecRet(t, ZeroResult, TRUE, FALSE)
            /\ ExecLeave(t)
       ELSE /\ nextIdx' = [nextIdx EXCEPT ![t] = last + 1]
            /\ pc' = [pc EXCEPT ![t] = "append"]
            /\ UNCHANGED <<ret, cmd, ap, mu, pre>>
    /\ UNCHANGED <<walVars, phase, storeVars, last, storeMu, getKey,
                   ghostVars, countVars>>
    /\ UNCHANGED otherVars

appRec(t) == [LogIndex |-> nextIdx[t], Cmd |-> cmd[t]]

\* an Append that puts a frame length into the file before Encode has
\* looked at the record
AppendWriteEarly(t) ==
    /\ pc[t] = "append"
    /\ \E e \in {Encode(appRec(t))} :
       IF e.err \/ bwErr
       THEN /\ ret' = ExecRet(t, ZeroResult, TRUE, FALSE)
            /\ ExecLeave(t)
            /\ file' = WriteAtCursor(file, cursor, <<0, 0, 0, 0>>)
            /\ UNCHANGED <<cursor, appends>>
       ELSE /\ appends < MaxAppends
            /\ file' = WriteAtCursor(file, cursor, e.frame)
            /\ cursor' = cursor + Len(e.frame)
            /\ appends' = appends + 1
            /\ pc' = [pc EXCEPT ![t] = "sync"]
            /\ UNCHANGED <<ret, cmd, nextIdx, ap, mu, pre>>
    /\ UNCHANGED <<offset, bwErr, phase, storeVars, last, storeMu, getKey,
                   ghostVars, opens>>
    /\ UNCHANGED otherVars

\* WAL.Append up to the flush: Encode, bw.Write, bw.Flush put the frame into
\* the file at the cursor. An Encode error, or the error wal.bw already
\* holds, is returned by Append and then by Exec
AppendWrite(t) ==
    /\ pc[t] = "append"
    /\ \E e \in {Encode(appRec(t))} :
       IF e.err \/ bwErr
       THEN /\ ret' = ExecRet(t, ZeroResult, TRUE, FALSE)
            /\ ExecLeave(t)
            /\ UNCHANGED <<file, cursor, appends>>
       ELSE /\ appends < MaxAppends
            /\ file' = WriteAtCursor(file, cursor, e.frame)
            /\ cursor' = cursor + Len(e.frame)
            /\ appends' = appends + 1
            /\ pc' = [pc EXCEPT ![t] = "sync"]
            /\ UNCHANGED <<ret, cmd, nextIdx, ap, mu, pre>>
    /\ UNCHANGED <<offset, bwErr, phase, storeVars, last, storeMu, getKey,
                   ghostVars, opens>>
    /\ UNCHANGED otherVars

\* how many bytes of the frame the file took before the write failed: none,
\* or less than a frameLen (an f.Sync() failure leaves the whole frame)
FailLens(fr) == {0, 3}

\* bw.Flush fails: the file took the first n bytes of the frame, wal.bw keeps
\* the error, Append and Exec return it
AppendWriteFail(t, n) ==
    /\ pc[t] = "append"
    /\ ~bwErr
    /\ appends < MaxAppends
    /\ \E e \in {Encode(appRec(t))} :
       /\ ~e.err
       /\ n \in FailLens(e.frame)
       /\ file' = WriteAtCursor(file, cursor, Slice(e.frame, 0, n))
    /\ cursor' = cursor + n
    /\ bwErr' = TRUE
    /\ appends' = appends + 1
    /\ ret' = ExecRet(t, ZeroResult, TRUE, FALSE)
    /\ ExecLeave(t)
    /\ UNCHANGED <<offset, phase, storeVars, last, storeMu, getKey, ghostVars,
                   opens>>
    /\ UNCHANGED otherVars

\* WAL.Append after the flush: f.Sync(), then wal.offset += len(fr)
AppendSync(t) ==
    /\ pc[t] = "sync"
    /\ \E e \in {Encode(appRec(t))} : offset' = offset + Len(e.frame)
    /\ pc' = [pc EXCEPT ![t] = "applyLock"]
    /\ UNCHANGED <<file, cursor, bwErr, phase, storeVars, last, mu, storeMu,
                   cmd, nextIdx, ap, getKey, ret, pre, ghostVars, countVars>>
    /\ UNCHANGED otherVars

\* an f.Sync() failure that is not noticed: the offset moves as on success
AppendSyncFailAdvance(t) ==
    /\ pc[t] = "sync"
    /\ \E e \in {Encode(appRec(t))} : offset' = offset + Len(e.frame)
    /\ ret' = ExecRet(t, ZeroResult, TRUE, FALSE)
    /\ ExecLeave(t)
    /\ UNCHANGED <<file, cursor, bwErr, phase, storeVars, last, storeMu,
                   getKey, ghostVars, countVars>>
    /\ UNCHANGED otherVars

\* f.Sync() fails: Append returns before wal.offset is touched, Exec returns
\* the error; the frame stays in the file
AppendSyncFail(t) ==
    /\ pc[t] = "sync"
    /\ ret' = ExecRet(t, ZeroResult, TRUE, FALSE)
    /\ ExecLeave(t)
    /\ UNCHANGED <<file, cursor, offset, bwErr, phase, storeVars, last,
                   storeMu, getKey, ghostVars, countVars>>
    /\ UNCHANGED otherVars

\* s.mu.Lock() at the head of Store.Apply
ApplyLock(t) ==
    /\ pc[t] = "applyLock"
    /\ storeMu = NoThread
    /\ storeMu' = t
    /\ pc' = [pc EXCEPT ![t] = "apply"]
    /\ UNCHANGED <<walVars, phase, storeVars, last, mu, cmd, nextIdx, ap,
                   getKey, ret, pre, ghostVars, countVars>>
    /\ UNCHANGED otherVars

\* a key whose mapping has just been changed is no longer covered by an
\* earlier acknowledgement
Unack(av, k) == [av EXCEPT ![k] = Unacked]
UnackGets(ge, k) == [t \in Threads |-> IF getKey[t] = k THEN Unacked ELSE ge[t]]

\* an Apply that unlocks the store on success only: an error return leaves
\* Store.mu locked
ApplyStepErrKeepsLock(t) ==
    /\ pc[t] = "apply"
    /\ LET a == Apply(Store, cmd[t], nextIdx[t]) IN
       /\ kv' = a.store.kv
       /\ lastlogi' = a.store.lastlogi
       /\ dedupMap' = a.store.dedupMap
       /\ IF a.err
          THEN /\ ret' = ExecRet(t, a.res, TRUE, FALSE)
               /\ ExecLeave(t)
               /\ UNCHANGED <<ackVal, getExp, storeMu>>
          ELSE /\ ap' = [ap EXCEPT ![t] = a.res]
               /\ pc' = [pc EXCEPT ![t] = "finish"]
               /\ storeMu' = NoThread
               /\ ackVal' = Unack(ackVal, cmd[t].Key)
               /\ getExp' = UnackGets(getExp, cmd[t].Key)
               /\ UNCHANGED <<ret, cmd, nextIdx, mu, pre>>
    /\ UNCHANGED <<walVars, phase, last, getKey, acked, tamper, countVars>>
    /\ UNCHANGED otherVars

\* the body of Store.Apply called from Exec; an error returns from Exec
ApplyStep(t) ==
    /\ pc[t] = "apply"
    /\ storeMu' = NoThread
    /\ LET a == Apply(Store, cmd[t], nextIdx[t]) IN
       /\ kv' = a.store.kv
       /\ lastlogi' = a.store.lastlogi
       /\ dedupMap' = a.store.dedupMap
       /\ IF a.err
          THEN /\ ret' = ExecRet(t, a.res, TRUE, FALSE)
               /\ ExecLeave(t)
               /\ UNCHANGED <<ackVal, getExp>>
          ELSE /\ ap' = [ap EXCEPT ![t] = a.res]
               /\ pc' = [pc EXCEPT ![t] = "finish"]
               /\ ackVal' = Unack(ackVal, cmd[t].Key)
               /\ getExp' = UnackGets(getExp, cmd[t].Key)
               /\ UNCHANGED <<ret, cmd, nextIdx, mu, pre>>
    /\ UNCHANGED <<walVars, phase, last, getKey, acked, tamper, countVars>>
    /\ UNCHANGED otherVars

\* n.last = nextIdx; return ap, nil
Finish(t) ==
    /\ pc[t] = "finish"
    /\ last' = nextIdx[t]
    /\ ret' = ExecRet(t, ap[t], FALSE, FALSE)
    /\ acked' = Append(acked, cmd[t])
    /\ ackVal' = IF ap[t].Success
                 THEN [ackVal EXCEPT ![cmd[t].Key] =
                          IF cmd[t].Instruct = CmdPut
                          THEN AckedValue(cmd[t].Value)
                          ELSE NotFound]
                 ELSE ackVal
    /\ ExecLeave(t)
    /\ UNCHANGED <<walVars, phase, storeVars, storeMu, getKey, getExp, tamper,
                   countVars>>
    /\ UNCHANGED otherVars

(***************************************************************************)
(* Node.Get -> Store.Get                                                   *)
(***************************************************************************)
\* the call of Node.Get(key)
GetCall(t, k) ==
    /\ phase = "up"
    /\ pc[t] = "idle"
    /\ pc' = [pc EXCEPT ![t] = "getLock"]
    /\ getKey' = [getKey EXCEPT ![t] = k]
    /\ getExp' = [getExp EXCEPT ![t] = ackVal[k]]
    /\ UNCHANGED <<walVars, phase, storeVars, last, mu, storeMu, cmd, nextIdx,
                   ap, ret, pre, acked, ackVal, tamper, countVars>>
    /\ UNCHANGED otherVars

\* store.mu.Lock()
GetLock(t) ==
    /\ pc[t] = "getLock"
    /\ storeMu = NoThread
    /\ storeMu' = t
    /\ pc' = [pc EXCEPT ![t] = "get"]
    /\ UNCHANGED <<walVars, phase, storeVars, last, mu, cmd, nextIdx, ap,
                   getKey, ret, pre, ghostVars, countVars>>
    /\ UNCHANGED otherVars

\* the lookup, the copy and the deferred unlock
GetRead(t) ==
    /\ pc[t] = "get"
    /\ LET g == StoreGet(Store, getKey[t]) IN
       ret' = [op |-> "get", at |-> "", cmd |-> NoCmd, key |-> getKey[t],
               res |-> ZeroResult, val |-> g.val, err |-> g.err,
               hit |-> FALSE, size |-> Len(file), exp |-> getExp[t]]
    /\ storeMu' = NoThread
    /\ pc' = [pc EXCEPT ![t] = "idle"]
    /\ getKey' = [getKey EXCEPT ![t] = <<>>]
    /\ getExp' = [getExp EXCEPT ![t] = Unacked]
    /\ UNCHANGED <<walVars, phase, storeVars, last, mu, cmd, nextIdx, ap,
                   pre, acked, ackVal, tamper, countVars>>
    /\ UNCHANGED otherVars

(***************************************************************************)
(* Close, crash, Open                                                      *)
(***************************************************************************)
\* what a caller of Close gets back
CloseRet(err) ==
    [op |-> "close", at |-> "", cmd |-> NoCmd, key |-> <<>>, res |-> ZeroResult,
     val |-> <<>>, err |-> err, hit |-> FALSE, size |-> Len(file),
     exp |-> Unacked]

\* Node.Close after the transport has drained; n.wal is never set to nil, so
\* every call reaches WAL.Close
Close ==
    /\ phase \in {"up", "closed"}
    /\ \A t \in Threads : pc[t] = "idle"
    /\ LET c == WALClose(phase = "closed", bwErr) IN
       /\ phase' = IF c.closed THEN "closed" ELSE phase
       /\ ret' = CloseRet(c.err)
    /\ UNCHANGED <<walVars, storeVars, last, mu, storeMu, threadVars, pre,
                   ghostVars, countVars>>
    /\ UNCHANGED otherVars

\* no Node, Store or WAL is left in memory
MemoryGone ==
    /\ kv' = EmptyMap
    /\ lastlogi' = 0
    /\ dedupMap' = EmptyMap
    /\ last' = 0
    /\ cursor' = 0
    /\ offset' = 0
    /\ bwErr' = FALSE
    /\ mu' = NoThread
    /\ storeMu' = NoThread
    /\ pc' = [t \in Threads |-> "idle"]
    /\ cmd' = [t \in Threads |-> NoCmd]
    /\ nextIdx' = [t \in Threads |-> 0]
    /\ ap' = [t \in Threads |-> ZeroResult]
    /\ getKey' = [t \in Threads |-> <<>>]
    /\ getExp' = [t \in Threads |-> Unacked]
    /\ ackVal' = [k \in Keys |-> Unacked]
    /\ pre' = NoPre

\* the process is gone: nothing of its memory survives
MemoryLost ==
    /\ MemoryGone
    /\ ret' = NoRet

\* the process dies between two steps; what was written stays in the file
Crash ==
    /\ phase = "up"
    /\ phase' = "down"
    /\ MemoryLost
    /\ UNCHANGED <<file, acked, tamper, countVars>>
    /\ UNCHANGED otherVars

\* how much of a frame a torn write leaves: less than a frameLen, exactly a
\* frameLen, a frameLen and part of the body, all but the last byte
TornLens(fr) == {1, 3, 4, 9, Len(fr) - 1}

\* the process dies while the frame is being written: only the first n
\* bytes of the frame reach the file
CrashTorn(t, n) ==
    /\ phase = "up"
    /\ pc[t] = "append"
    /\ appends < MaxAppends
    /\ ~bwErr
    /\ \E e \in {Encode(appRec(t))} :
       /\ ~e.err
       /\ n \in TornLens(e.frame)
       /\ file' = WriteAtCursor(file, cursor, Slice(e.frame, 0, n))
    /\ appends' = appends + 1
    /\ phase' = "down"
    /\ MemoryLost
    /\ UNCHANGED <<acked, tamper, opens>>
    /\ UNCHANGED otherVars

RECURSIVE CmdsOf(_)
CmdsOf(recs) == IF recs = <<>> THEN <<>> ELSE <<Head(recs).Cmd>> \o CmdsOf(Tail(recs))

\* what the caller of OpenNode gets back when it fails: no Node, and the
\* error of the step named in `at`
OpenRet(why) == [NoRet EXCEPT !.op = "open", !.at = why, !.err = TRUE]

\* OpenNode on the same data directory by a new process, while the disk
\* behaves as fault says
OpenWith(fault) ==
    /\ phase \in {"closed", "down"}
    /\ opens < MaxOpens
    /\ opens' = opens + 1
    /\ \E o \in {OpenNode(file, fault)} :
       /\ file' = o.file
       /\ IF o.err
          THEN /\ phase' = IF o.closed THEN "failed" ELSE "leaked"
               /\ MemoryGone
               /\ ret' = OpenRet(o.why)
               /\ tamper' = NoTamper
               /\ UNCHANGED acked
          ELSE /\ phase' = "up"
               /\ tamper' = IF o.file = file THEN NoTamper
                             ELSE [kind |-> "repaired", good |-> o.offset,
                                   nrecs |-> Len(DiskRecords(o.file))]
               /\ cursor' = o.cursor
               /\ offset' = o.offset
               /\ kv' = o.store.kv
               /\ lastlogi' = o.store.lastlogi
               /\ dedupMap' = o.store.dedupMap
               /\ last' = o.last
               /\ acked' = CmdsOf(DiskRecords(o.file))
               /\ ackVal' = [k \in Keys |-> Unacked]
               /\ ret' = NoRet
               /\ bwErr' = FALSE
               /\ pre' = [NoPre EXCEPT !.file = file]
               /\ UNCHANGED <<mu, storeMu, threadVars, getExp>>
    /\ UNCHANGED appends
    /\ UNCHANGED otherVars

\* OpenNode on a disk that returns no error
Open == OpenWith(NoFault)

(***************************************************************************)
(* Damage to the file while no process has it open                         *)
(***************************************************************************)
\* junk tails: too short for a frameLen (1..3 bytes), frameLen 0, a
\* plausible frameLen with a short body, a frameLen above 2^30, and a frame
\* of an empty payload whose checksum matches
Junk == {<<7>>, <<7, 7>>, <<7, 7, 7>>, <<0, 0, 0, 0>>,
         <<0, 0, 0, 40, 1, 2, 3>>, <<127, 0, 0, 0, 1>>,
         <<0, 0, 0, 4, 0, 0, 0, 0>>}

AppendJunk(j) ==
    /\ phase \in {"closed", "down"}
    /\ tamper.kind = "none"
    /\ CleanTail(file)
    /\ file' = file \o j
    /\ tamper' = [kind |-> "junk", good |-> Len(file),
                  nrecs |-> Len(DiskRecords(file))]
    /\ UNCHANGED <<cursor, offset, bwErr, phase, storeVars, last, mu, storeMu,
                   threadVars, ret, pre, acked, ackVal, getExp, countVars>>
    /\ UNCHANGED otherVars

RECURSIVE LastStart(_, _, _)
\* the offset at which the last valid frame of the file starts
LastStart(f, off, prev) ==
    LET fr == readFrameAt(f, off, "ok") IN
    IF fr.err # "nil" THEN prev
    ELSE IF Decode(fr.enc).err THEN prev
    ELSE LastStart(f, off + fr.n, off)

FlipBit(b) == IF b % 2 = 0 THEN b + 1 ELSE b - 1

\* the bytes that get damaged in a frame starting at s and ending before e:
\* the first and last byte of the CRC, the first byte of the payload, the
\* instruction byte and the last byte of the payload
CorruptOffsets(s, e) == {s + 4, s + 7, s + 8, s + 16, e - 1}

\* one bit of the CRC or of the payload of the last frame is flipped
CorruptLast(p) ==
    /\ phase \in {"closed", "down"}
    /\ tamper.kind = "none"
    /\ CleanTail(file)
    /\ DiskRecords(file) # <<>>
    /\ LET s == LastStart(file, Len(walHeader), Len(walHeader)) IN
       /\ p \in CorruptOffsets(s, Len(file))
       /\ file' = [file EXCEPT ![p + 1] = FlipBit(file[p + 1])]
       /\ tamper' = [kind |-> "corrupt", good |-> s,
                     nrecs |-> Len(DiskRecords(file)) - 1]
    /\ UNCHANGED <<cursor, offset, bwErr, phase, storeVars, last, mu, storeMu,
                   threadVars, ret, pre, acked, ackVal, getExp, countVars>>
    /\ UNCHANGED otherVars

Next ==
    \/ \E t \in Threads, c \in Commands : ExecLock(t, c)
    \/ \E t \in Threads : PeekLock(t)
    \/ \E t \in Threads : Peek(t)
    \/ \E t \in Threads : Validate(t)
    \/ \E t \in Threads : AppendWrite(t)
    \/ \E t \in Threads : \E n \in FailLens(Encode(appRec(t)).frame) :
           AppendWriteFail(t, n)
    \/ \E t \in Threads : AppendSync(t)
    \/ \E t \in Threads : AppendSyncFail(t)
    \/ \E t \in Threads : ApplyLock(t)
    \/ \E t \in Threads : ApplyStep(t)
    \/ \E t \in Threads : Finish(t)
    \/ \E t \in Readers, k \in Keys : GetCall(t, k)
    \/ \E t \in Threads : GetLock(t)
    \/ \E t \in Threads : GetRead(t)
    \/ Close
    \/ Crash
    \/ \E t \in Threads : \E n \in TornLens(Encode(appRec(t)).frame) : CrashTorn(t, n)
    \/ Open
    \/ \E j \in Junk : AppendJunk(j)
    \/ \E p \in 0..(Len(file) - 1) : CorruptLast(p)

Spec == Init /\ [][Next]_vars

(***************************************************************************)
(* The Store on its own: Store.Apply and Store.Get called directly, as the *)
(* store tests and the replay loop of OpenNode call them.                  *)
(***************************************************************************)
Caller == "t1"

\* the commands handed to Store.Apply, over two keys. Exec answers a Put or
\* Delete with Seq = 0 at its dedup peek, so none reaches Apply or the log; a
\* direct caller may hand over the unset instruction, also with the zero Seq
StoreCommands ==
    {Command(CmdPut, c, s, k, v) :
        c \in Clients, s \in Seqs, k \in {KeyK, KeyJ}, v \in Values}
    \cup {Command(CmdDelete, c, s, k, <<>>) :
        c \in Clients, s \in Seqs, k \in {KeyK, KeyJ}}
    \cup {Command(CmdUnknown, ClientA, s, KeyK, <<>>) : s \in {0, MaxSeq}}

StoreRet(op, key, val, err) ==
    [op |-> op, at |-> "", cmd |-> NoCmd, key |-> key, res |-> ZeroResult, val |-> val,
     err |-> err, hit |-> FALSE, size |-> 0, exp |-> Unacked]

\* s.Apply(c, i): the arguments and the ApplyResult are kept in the caller's
\* cmd, nextIdx and ap
StoreApply(c, i) ==
    /\ lastlogi < MaxIndex
    /\ LET a == Apply(Store, c, i) IN
       /\ kv' = a.store.kv
       /\ lastlogi' = a.store.lastlogi
       /\ dedupMap' = a.store.dedupMap
       /\ ap' = [ap EXCEPT ![Caller] = a.res]
       /\ ret' = StoreRet("apply", c.Key, <<>>, a.err)
    /\ cmd' = [cmd EXCEPT ![Caller] = c]
    /\ nextIdx' = [nextIdx EXCEPT ![Caller] = i]
    /\ pre' = Snapshot
    /\ UNCHANGED <<walVars, phase, last, mu, storeMu, pc, getKey, ghostVars,
                   countVars>>
    /\ UNCHANGED otherVars

\* s.Get(k)
StoreGetCall(k) ==
    /\ LET g == StoreGet(Store, k) IN ret' = StoreRet("get", k, g.val, g.err)
    /\ UNCHANGED <<walVars, phase, storeVars, last, mu, storeMu, threadVars,
                   pre, ghostVars, countVars>>
    /\ UNCHANGED otherVars

StoreNext ==
    \/ \E c \in StoreCommands : \E i \in {lastlogi, lastlogi + 1, lastlogi + 2} :
           StoreApply(c, i)
    \/ \E k \in {KeyK, KeyJ} : StoreGetCall(k)

StoreSpec == Init /\ [][StoreNext]_vars

(***************************************************************************)
(* The arrays behind the byte slices. A []byte is a view of an array: two  *)
(* slices of one array show each other's writes, append([]byte(nil), v...) *)
(* makes a new array. mem.bytes[i] is what array i holds, mem.kv[k] the    *)
(* array behind kv[k], mem.dedup[c] the array behind the PrevValue of c's  *)
(* dedup entry, mem.passed the arrays the caller handed in as cmd.Value,   *)
(* mem.received those it got back, mem.touched those it overwrote after.   *)
(***************************************************************************)
MaxBufs == 8         \* arrays allocated in one behaviour

\* make([]byte, ...) filled with b: [mem, id]
Alloc(m, b) ==
    [mem |-> [m EXCEPT !.bytes = Append(@, b)], id |-> Len(m.bytes) + 1]

\* a Store.Apply that keeps the caller's cmd.Value in the map
ApplyMemShare(m, s, c, logindex, vb) ==
    IF logindex # s.lastlogi + 1 THEN [mem |-> m, id |-> NoBuf]
    ELSE IF c.Seq <= DedupAt(s.dedupMap, c.ClientID).seq
    THEN [mem |-> m,
          id |-> IF c.ClientID \in DOMAIN m.dedup
                 THEN m.dedup[c.ClientID] ELSE NoBuf]
    ELSE IF c.Instruct = CmdPut
    THEN IF c.Key \notin DOMAIN s.kv
         THEN [mem |-> [m EXCEPT !.kv = MapPut(@, c.Key, vb)], id |-> NoBuf]
         ELSE LET oldvalcopy == Alloc(m, s.kv[c.Key])
              IN [mem |-> [oldvalcopy.mem EXCEPT !.kv = MapPut(@, c.Key, vb)],
                  id |-> oldvalcopy.id]
    ELSE IF c.Instruct = CmdDelete
    THEN IF c.Key \notin DOMAIN s.kv THEN [mem |-> m, id |-> NoBuf]
         ELSE LET prev == Alloc(m, s.kv[c.Key])
              IN [mem |-> [prev.mem EXCEPT !.kv = MapDelete(@, c.Key)],
                  id |-> prev.id]
    ELSE [mem |-> m, id |-> NoBuf]

\* the arrays after Store.Apply(c, logindex) on store s, c.Value being
\* a slice of array vb: [mem, id], id the array behind the PrevValue that
\* is returned. A dedup hit returns the stored result as it is; Put stores
\* input, a copy of c.Value, and returns a copy of the old value; Delete
\* returns a copy of the old value.
ApplyMem(m, s, c, logindex, vb) ==
    IF logindex # s.lastlogi + 1 THEN [mem |-> m, id |-> NoBuf]
    ELSE IF c.Seq <= DedupAt(s.dedupMap, c.ClientID).seq
    THEN [mem |-> m,
          id |-> IF c.ClientID \in DOMAIN m.dedup
                 THEN m.dedup[c.ClientID] ELSE NoBuf]
    ELSE IF c.Instruct = CmdPut
    THEN LET input == Alloc(m, c.Value) IN
         IF c.Key \notin DOMAIN s.kv
         THEN [mem |-> [input.mem EXCEPT !.kv = MapPut(@, c.Key, input.id)],
               id |-> NoBuf]
         ELSE LET oldvalcopy == Alloc(input.mem, s.kv[c.Key])
              IN [mem |-> [oldvalcopy.mem EXCEPT
                              !.kv = MapPut(@, c.Key, input.id)],
                  id |-> oldvalcopy.id]
    ELSE IF c.Instruct = CmdDelete
    THEN IF c.Key \notin DOMAIN s.kv THEN [mem |-> m, id |-> NoBuf]
         ELSE LET prev == Alloc(m, s.kv[c.Key])
              IN [mem |-> [prev.mem EXCEPT !.kv = MapDelete(@, c.Key)],
                  id |-> prev.id]
    ELSE [mem |-> m, id |-> NoBuf]

\* a Store.Get that returns the slice found in the map
GetMemShare(m, s, key) ==
    IF key \notin DOMAIN s.kv THEN [mem |-> m, id |-> NoBuf]
    ELSE [mem |-> m, id |-> m.kv[key]]

\* the arrays after Store.Get(key): valcopy is a new array
GetMem(m, s, key) ==
    IF key \notin DOMAIN s.kv THEN [mem |-> m, id |-> NoBuf]
    ELSE Alloc(m, s.kv[key])

\* the caller keeps the array it received
Received(r) ==
    IF r.id = NoBuf THEN r.mem
    ELSE [r.mem EXCEPT !.received = @ \cup {r.id}]

\* the commands of the caller: Puts of two values and a Delete on one key,
\* and a Put with the zero Seq, which Apply answers from the dedup table
AliasCommands ==
    {Command(CmdPut, ClientA, MaxSeq, KeyK, v) : v \in Values}
    \cup {Command(CmdDelete, ClientA, MaxSeq, KeyK, <<>>),
          Command(CmdPut, ClientA, 0, KeyK, ValV)}

\* the caller builds c with a new array for c.Value and calls
\* s.Apply(c, lastlogi + 1)
AliasApply(c) ==
    /\ lastlogi < MaxIndex
    /\ Len(mem.bytes) + 3 <= MaxBufs
    /\ \E v \in {Alloc(mem, c.Value)} :
       \E r \in {ApplyMem([v.mem EXCEPT !.passed = @ \cup {v.id}], Store, c,
                          lastlogi + 1, v.id)} :
          mem' = Received(r)
    /\ \E a \in {Apply(Store, c, lastlogi + 1)} :
       /\ kv' = a.store.kv
       /\ lastlogi' = a.store.lastlogi
       /\ dedupMap' = a.store.dedupMap
       /\ ap' = [ap EXCEPT ![Caller] = a.res]
       /\ ret' = StoreRet("apply", c.Key, <<>>, a.err)
    /\ cmd' = [cmd EXCEPT ![Caller] = c]
    /\ nextIdx' = [nextIdx EXCEPT ![Caller] = lastlogi + 1]
    /\ pre' = Snapshot
    /\ UNCHANGED <<walVars, phase, last, mu, storeMu, pc, getKey, ghostVars,
                   countVars, routerVars>>

\* the caller calls s.Get(k) and keeps what it returns
AliasGet(k) ==
    /\ Len(mem.bytes) + 1 <= MaxBufs
    /\ mem' = Received(GetMem(mem, Store, k))
    /\ LET g == StoreGet(Store, k) IN ret' = StoreRet("get", k, g.val, g.err)
    /\ UNCHANGED <<walVars, phase, storeVars, last, mu, storeMu, threadVars,
                   pre, ghostVars, countVars, routerVars>>

\* the caller overwrites the first byte of an array it passed in or
\* received; every slice of that array shows the new byte
Scribble(b) ==
    /\ b \in (mem.passed \cup mem.received) \ mem.touched
    /\ mem.bytes[b] # <<>>
    /\ \E nb \in {[mem.bytes EXCEPT ![b] = [@ EXCEPT ![1] = FlipBit(@)]]} :
       /\ mem' = [mem EXCEPT !.bytes = nb, !.touched = @ \cup {b}]
       /\ kv' = [k \in DOMAIN kv |-> nb[mem.kv[k]]]
       /\ dedupMap' =
             [c \in DOMAIN dedupMap |->
                 IF c \in DOMAIN mem.dedup
                 THEN [dedupMap[c] EXCEPT
                          !.result.PrevValue = nb[mem.dedup[c]]]
                 ELSE dedupMap[c]]
    /\ UNCHANGED <<walVars, phase, lastlogi, last, mu, storeMu, threadVars,
                   ret, pre, ghostVars, countVars, routerVars>>

AliasNext ==
    \/ \E c \in AliasCommands : AliasApply(c)
    \/ \E k \in Keys : AliasGet(k)
    \/ \E b \in 1..MaxBufs : Scribble(b)

AliasSpec == Init /\ [][AliasNext]_vars

(***************************************************************************)
(* The router (cmd/router/main.go) in front of the nodes' HTTP servers     *)
(* (http_server.go). One request at a time travels client -> router ->     *)
(* node handler; the call of Node.Exec or Node.Get a handler makes is      *)
(* recorded, what Exec and Get do is the subject of Spec.                  *)
(***************************************************************************)
NumNodes == 6                    \* len(staticCluster)

nodeVars == <<walVars, phase, storeVars, last, mu, storeMu, threadVars, ret,
              pre, ghostVars, countVars, mem>>

RECURSIVE Xor(_, _)
\* bitwise exclusive or of two naturals
Xor(a, b) ==
    IF a = 0 THEN b
    ELSE IF b = 0 THEN a
    ELSE 2 * Xor(a \div 2, b \div 2) + (((a % 2) + (b % 2)) % 2)

\* hash/fnv New32a: the 32-bit state as two 16-bit halves; offset basis
\* 0x811C9DC5, prime 0x01000193 = 2^24 + 403
FnvOffset == [hi |-> 33052, lo |-> 40389]

\* one byte: hash ^= b; hash *= prime (mod 2^32)
FnvStep(h, b) ==
    LET lo == Xor(h.lo, b)
        p == lo * 403
    IN [hi |-> (h.hi * 403 + lo * 256 + p \div 65536) % 65536,
        lo |-> p % 65536]

RECURSIVE Fnv32a(_, _)
Fnv32a(bytes, h) ==
    IF bytes = <<>> THEN h ELSE Fnv32a(Tail(bytes), FnvStep(h, Head(bytes)))

\* pickNodeForKey: int(h.Sum32()) % len(r.nodes), an index into r.nodes; with
\* a 64-bit int the conversion never yields a negative number
pickNodeForKey(key) ==
    LET h == Fnv32a(key, FnvOffset)
    IN ((h.hi % NumNodes) * (65536 % NumNodes) + h.lo) % NumNodes

\* the requests clients send to the router: JSON bodies that parse, with and
\* without the required fields
Requests ==
    [method : {"GET", "POST"}, path : {"/put", "/get", "/delete"},
     client : {<<>>, ClientA}, seq : {0, 1}, key : {<<>>, KeyK, KeyJ}]

\* a handler's answer: a status of its own, or the request passed on
Answer(status) == [forward |-> FALSE, node |-> -1, npath |-> "", status |-> status]
Forward(node, npath) == [forward |-> TRUE, node |-> node, npath |-> npath, status |-> 0]

\* router.handlePut
routerHandlePut(r) ==
    IF r.method # "POST" THEN Answer(405)
    ELSE IF r.key = <<>> THEN Answer(400)
    ELSE Forward(pickNodeForKey(r.key), "/put")

\* router.handleGet
routerHandleGet(r) ==
    IF r.method # "GET" THEN Answer(405)
    ELSE IF r.key = <<>> THEN Answer(400)
    ELSE Forward(pickNodeForKey(r.key), "/get")

\* router.handleDelete
routerHandleDelete(r) ==
    IF r.method # "POST" THEN Answer(405)
    ELSE IF r.client = <<>> \/ r.seq = 0 \/ r.key = <<>> THEN Answer(400)
    ELSE Forward(pickNodeForKey(r.key), "/delete")

\* the mux of the router
RouterMux(r) ==
    IF r.path = "/put" THEN routerHandlePut(r)
    ELSE IF r.path = "/get" THEN routerHandleGet(r)
    ELSE IF r.path = "/delete" THEN routerHandleDelete(r)
    ELSE Answer(404)

\* the mux of a node (NewHTTPServer): the handler a path is registered for
NodeMux(npath) ==
    IF npath = "/put" THEN "handlePut"
    ELSE IF npath = "/del" THEN "handleDel"
    ELSE IF npath = "/get" THEN "handleGet"
    ELSE "NotFound"

\* a client sends a request to the router
ClientSend(r) ==
    /\ http.stage \in {"none", "done"}
    /\ http' = [stage |-> "router", req |-> r, node |-> -1, npath |-> "",
                status |-> 0]
    /\ UNCHANGED <<execd, nodeVars>>

\* the router's handler runs up to its http.Post / http.Get to the node
RouterServe ==
    /\ http.stage = "router"
    /\ LET a == RouterMux(http.req) IN
       http' = [http EXCEPT !.stage = IF a.forward THEN "node" ELSE "done",
                            !.node = a.node, !.npath = a.npath,
                            !.status = a.status]
    /\ UNCHANGED <<execd, nodeVars>>

\* HTTPServer.handlePut / handleDel: validation, then h.node.Exec(cmd); the
\* router passes the node's status on
NodeExec(ok) ==
    /\ http.stage = "node"
    /\ NodeMux(http.npath) \in {"handlePut", "handleDel"}
    /\ LET r == http.req IN
       IF r.method # "POST"
       THEN /\ http' = [http EXCEPT !.stage = "done", !.status = 405]
            /\ UNCHANGED execd
       ELSE IF r.client = <<>> \/ r.seq = 0 \/ r.key = <<>>
       THEN /\ http' = [http EXCEPT !.stage = "done", !.status = 400]
            /\ UNCHANGED execd
       ELSE /\ execd' = execd \cup
                   {[node |-> http.node, call |-> "Exec",
                     instruct |-> IF NodeMux(http.npath) = "handlePut"
                                  THEN CmdPut ELSE CmdDelete,
                     key |-> r.key]}
            /\ http' = [http EXCEPT !.stage = "done",
                                    !.status = IF ok THEN 200 ELSE 500]
    /\ UNCHANGED nodeVars

\* HTTPServer.handleGet: h.node.Get(key)
NodeGet(ok) ==
    /\ http.stage = "node"
    /\ NodeMux(http.npath) = "handleGet"
    /\ LET r == http.req IN
       IF r.method # "GET"
       THEN /\ http' = [http EXCEPT !.stage = "done", !.status = 405]
            /\ UNCHANGED execd
       ELSE IF r.key = <<>>
       THEN /\ http' = [http EXCEPT !.stage = "done", !.status = 400]
            /\ UNCHANGED execd
       ELSE /\ execd' = execd \cup
                   {[node |-> http.node, call |-> "Get",
                     instruct |-> CmdUnknown, key |-> r.key]}
            /\ http' = [http EXCEPT !.stage = "done",
                                    !.status = IF ok THEN 200 ELSE 404]
    /\ UNCHANGED nodeVars

\* the node's mux has no handler for the path: 404 page not found
NodeNotFound ==
    /\ http.stage = "node"
    /\ NodeMux(http.npath) = "NotFound"
    /\ http' = [http EXCEPT !.stage = "done", !.status = 404]
    /\ UNCHANGED <<execd, nodeVars>>

\* the node cannot be reached: the router answers 502
NodeUnreachable ==
    /\ http.stage = "node"
    /\ http' = [http EXCEPT !.stage = "done", !.status = 502]
    /\ UNCHANGED <<execd, nodeVars>>

RouterNext ==
    \/ \E r \in Requests : ClientSend(r)
    \/ RouterServe
    \/ \E ok \in BOOLEAN : NodeExec(ok)
    \/ \E ok \in BOOLEAN : NodeGet(ok)
    \/ NodeNotFound
    \/ NodeUnreachable

RouterSpec == Init /\ [][RouterNext]_vars

(***************************************************************************)
(* The dedup lookups of Node.Exec and Store.Apply as functions of the      *)
(* dedup table: the table the Store starts with is an input, drawn from    *)
(* tables over two clients, one of them named like the key the commands    *)
(* use. Exec runs as in Spec, without I/O faults, crashes and re-opens;    *)
(* Store.Apply is also called directly while no Exec is running.           *)
(***************************************************************************)
ClientK == KeyK                  \* the client whose id is "k"

\* two distinguishable stored results
StoredResults ==
    {[Success |-> TRUE, PrevValue |-> ValV, LogIndex |-> 1],
     [Success |-> TRUE, PrevValue |-> ValW, LogIndex |-> 2]}

DedupSeqs == 1..(MaxSeq + 1)

DedupEntries == [seq : DedupSeqs, result : StoredResults]

\* map[string]Dedup over the two clients
DedupTables ==
    {dm \in UNION {[D -> DedupEntries] : D \in SUBSET {ClientA, ClientK}} :
        \A c \in DOMAIN dm : dm[c].result.LogIndex = dm[c].seq}

DedupCommands ==
    {Command(CmdPut, c, s, KeyK, ValV) : c \in {ClientA, ClientK}, s \in DedupSeqs}
    \cup {Command(CmdDelete, ClientA, MaxSeq + 1, KeyK, <<>>)}

DedupInit ==
    /\ InitNode
    /\ dedupMap \in DedupTables

AllIdle == \A t \in Threads : pc[t] = "idle"

DedupNext ==
    \/ \E t \in Threads, c \in DedupCommands : ExecLock(t, c)
    \/ \E t \in Threads : PeekLock(t)
    \/ \E t \in Threads : Peek(t)
    \/ \E t \in Threads : Validate(t)
    \/ \E t \in Threads : AppendWrite(t)
    \/ \E t \in Threads : AppendSync(t)
    \/ \E t \in Threads : ApplyLock(t)
    \/ \E t \in Threads : ApplyStep(t)
    \/ \E t \in Threads : Finish(t)
    \/ \E c \in DedupCommands : AllIdle /\ StoreApply(c, lastlogi + 1)

DedupSpec == DedupInit /\ [][DedupNext]_vars

(***************************************************************************)
(* Callers that wait. In Spec the call of Exec and n.mu.Lock() are one     *)
(* step; here they are two, so that a caller blocked on Node.mu is a state *)
(* of its own. The process stays up: Exec and Get callers only, Append may *)
(* fail and always returns. sync.Mutex hands a lock over to a goroutine   *)
(* that keeps waiting for it (starvation mode), hence strong fairness for  *)
(* the lock steps and weak fairness for every other step of a thread.      *)
(***************************************************************************)
\* the callers inside Exec, waiting for Node.mu included
InExec == {t \in Threads : pc[t] \notin {"idle", "getLock", "get"}}

\* the call of Exec: the caller reaches n.mu.Lock()
ExecCall(t, c) ==
    /\ phase = "up"
    /\ pc[t] = "idle"
    /\ appends + Cardinality(InExec) < MaxAppends
    /\ pc' = [pc EXCEPT ![t] = "execLock"]
    /\ cmd' = [cmd EXCEPT ![t] = c]
    /\ UNCHANGED <<walVars, phase, storeVars, last, mu, storeMu, nextIdx, ap,
                   getKey, ret, pre, ghostVars, countVars>>
    /\ UNCHANGED otherVars

\* n.mu.Lock() returns
ExecAcquire(t) ==
    /\ pc[t] = "execLock"
    /\ mu = NoThread
    /\ mu' = t
    /\ pc' = [pc EXCEPT ![t] = "peekLock"]
    /\ pre' = Snapshot
    /\ UNCHANGED <<walVars, phase, storeVars, last, storeMu, cmd, nextIdx, ap,
                   getKey, ret, ghostVars, countVars>>
    /\ UNCHANGED otherVars

\* Log.Append returns: its write and flush, then its fsync
AppendFlush(t) ==
    \/ AppendWrite(t)
    \/ \E n \in FailLens(Encode(appRec(t)).frame) : AppendWriteFail(t, n)
AppendFsync(t) == AppendSync(t) \/ AppendSyncFail(t)

LiveNext ==
    \/ \E t \in Threads, c \in Commands : ExecCall(t, c)
    \/ \E t \in Threads : ExecAcquire(t)
    \/ \E t \in Threads : PeekLock(t)
    \/ \E t \in Threads : Peek(t)
    \/ \E t \in Threads : Validate(t)
    \/ \E t \in Threads : AppendFlush(t)
    \/ \E t \in Threads : AppendFsync(t)
    \/ \E t \in Threads : ApplyLock(t)
    \/ \E t \in Threads : ApplyStep(t)
    \/ \E t \in Threads : Finish(t)
    \/ \E t \in Threads, k \in Keys : GetCall(t, k)
    \/ \E t \in Threads : GetLock(t)
    \/ \E t \in Threads : GetRead(t)

\* a step of t that waits for a lock, and a step that waits for nothing
LockStep(t) == ExecAcquire(t) \/ PeekLock(t) \/ ApplyLock(t) \/ GetLock(t)
RunStep(t) ==
    \/ Peek(t)
    \/ Validate(t)
    \/ AppendFlush(t)
    \/ AppendFsync(t)
    \/ ApplyStep(t)
    \/ Finish(t)
    \/ GetRead(t)

LiveFair == \A t \in Threads : SF_vars(LockStep(t)) /\ WF_vars(RunStep(t))

LiveSpec == Init /\ [][LiveNext]_vars /\ LiveFair

(***************************************************************************)
(* OpenNode on whatever bytes the wal file holds. A process starts on a    *)
(* data directory whose wal file was written by earlier runs and then      *)
(* torn, damaged or replaced, and the disk may fail under ReplayAll.       *)
(***************************************************************************)
MaxFrames == 2       \* whole valid frames at the head of a wal file

PutKV == Command(CmdPut, ClientA, MaxSeq, KeyK, ValV)
PutKW == Command(CmdPut, ClientA, MaxSeq, KeyK, ValW)
DelK == Command(CmdDelete, ClientA, MaxSeq, KeyK, <<>>)
ReplayCommands == {PutKV, PutKW, DelK}

\* the frame Encode builds around a payload
Frame(enc) == BE(4 + Len(enc), 4) \o BE(ChecksumIEEE(enc), 4) \o enc

RECURSIVE FramesFrom(_, _)
\* the frames Append writes for commands cmds, the first with index i
FramesFrom(cmds, i) ==
    IF cmds = <<>> THEN <<>>
    ELSE Frame(EncodePayload([LogIndex |-> i, Cmd |-> Head(cmds)]))
         \o FramesFrom(Tail(cmds), i + 1)

CommandRuns ==
    UNION {[1..n -> ReplayCommands] : n \in 0..MaxFrames}

\* a frame whose ReadAt and CRC check pass and whose payload Decode refuses:
\* empty, cut inside the ClientID, instruction 0 and instruction 3
UndecodableFrames ==
    {Frame(<<>>),
     Frame(Slice(EncodePayload([LogIndex |-> 1, Cmd |-> PutKV]), 0, 10)),
     Frame(EncodePayload([LogIndex |-> 1,
                          Cmd |-> Command(CmdUnknown, ClientA, MaxSeq, KeyK, ValV)])),
     Frame(EncodePayload([LogIndex |-> 1,
                          Cmd |-> Command(3, ClientA, MaxSeq, KeyK, ValV)]))}

\* a frameLen of 0 and of 3, a frameLen above 2^30, a body shorter than its
\* frameLen
BadLengthFrames ==
    {<<0, 0, 0, 0>>, <<0, 0, 0, 3, 1, 2, 3>>, <<127, 0, 0, 0, 1>>,
     <<0, 0, 0, 40, 1, 2, 3>>}

StructTails == UndecodableFrames \cup BadLengthFrames

\* fewer bytes than a frameLen
ShortTails == {<<7>>, <<7, 7>>, <<7, 7, 7>>}

\* a frame whose stored CRC does not match its payload
BadCrcFrame ==
    LET fr == Frame(EncodePayload([LogIndex |-> 1, Cmd |-> PutKV]))
    IN [fr EXCEPT ![8] = FlipBit(fr[8])]

\* a well-formed frame behind a frame replay cannot accept
Follower == Frame(EncodePayload([LogIndex |-> 1, Cmd |-> PutKW]))
Followed ==
    {b \o Follower : b \in UndecodableFrames \cup {BadCrcFrame, <<0, 0, 0, 0>>}}

ReplayTails ==
    {<<>>} \cup StructTails \cup ShortTails \cup {BadCrcFrame} \cup Followed

\* files whose head is not the header literal: shorter than the header,
\* one byte of it changed (alone and in front of a frame)
BadHeader == [walHeader EXCEPT ![5] = 50]
BadHeaderFiles ==
    {Slice(walHeader, 0, 4), BadHeader, BadHeader \o FramesFrom(<<PutKV>>, 1)}

ReplayFiles ==
    {walHeader \o FramesFrom(cmds, 1) \o tail :
        cmds \in CommandRuns, tail \in ReplayTails}
    \cup BadHeaderFiles
    \cup {<<>>}

\* the disk errors ReplayAll can meet
DiskFaults ==
    {ReadFault(k, part) : k \in 0..MaxFrames, part \in {"hdr", "body"}}
    \cup {CallFault(op) : op \in {"Truncate", "Sync", "Seek"}}

\* no process is running; the wal file holds any of the files
ReplayInit ==
    /\ file \in ReplayFiles
    /\ cursor = 0
    /\ offset = 0
    /\ bwErr = FALSE
    /\ phase = "down"
    /\ kv = EmptyMap
    /\ lastlogi = 0
    /\ dedupMap = EmptyMap
    /\ last = 0
    /\ mu = NoThread
    /\ storeMu = NoThread
    /\ pc = [t \in Threads |-> "idle"]
    /\ cmd = [t \in Threads |-> NoCmd]
    /\ nextIdx = [t \in Threads |-> 0]
    /\ ap = [t \in Threads |-> ZeroResult]
    /\ getKey = [t \in Threads |-> <<>>]
    /\ ret = NoRet
    /\ pre = NoPre
    /\ acked = <<>>
    /\ ackVal = [k \in Keys |-> Unacked]
    /\ getExp = [t \in Threads |-> Unacked]
    /\ tamper = NoTamper
    /\ appends = 0
    /\ opens = 0
    /\ http = NoHttp
    /\ execd = {}
    /\ mem = NoMem

ReplayNext ==
    \/ Open
    \/ \E fault \in DiskFaults : OpenWith(fault)

ReplaySpec == ReplayInit /\ [][ReplayNext]_vars

(***************************************************************************)
(* cmd/kvs/main.go: shutdown on SIGINT/SIGTERM. The threads are the HTTP   *)
(* handlers' goroutines inside Node.Exec. phase "stopping": srv.Shutdown   *)
(* is waiting; "stopped": it has returned; "closed": the deferred          *)
(* node.Close() has closed the WAL; "exiting": it returned an error and    *)
(* left the file open; "down": main has returned.                          *)
(***************************************************************************)
\* <-sigch, then srv.Shutdown(ctx): the listener is closed, no new request
\* reaches a handler
Signal ==
    /\ phase = "up"
    /\ phase' = "stopping"
    /\ UNCHANGED <<walVars, storeVars, last, mu, storeMu, threadVars, ret,
                   pre, ghostVars, countVars>>
    /\ UNCHANGED otherVars

\* srv.Shutdown returns nil: every handler has returned
ShutdownDrained ==
    /\ phase = "stopping"
    /\ \A t \in Threads : pc[t] = "idle"
    /\ phase' = "stopped"
    /\ UNCHANGED <<walVars, storeVars, last, mu, storeMu, threadVars, ret,
                   pre, ghostVars, countVars>>
    /\ UNCHANGED otherVars

\* the 5 seconds of ctx are over while a handler is still running:
\* srv.Shutdown returns the context's error, main logs it and goes on
ShutdownTimeout ==
    /\ phase = "stopping"
    /\ \E t \in Threads : pc[t] # "idle"
    /\ phase' = "stopped"
    /\ UNCHANGED <<walVars, storeVars, last, mu, storeMu, threadVars, ret,
                   pre, ghostVars, countVars>>
    /\ UNCHANGED otherVars

\* main returns: the deferred node.Close() runs WAL.Close; Node.Close does
\* not take n.mu and waits for no handler
DeferredClose ==
    /\ phase = "stopped"
    /\ LET c == WALClose(FALSE, bwErr) IN
       /\ phase' = IF c.closed THEN "closed" ELSE "exiting"
       /\ ret' = CloseRet(c.err)
    /\ UNCHANGED <<walVars, storeVars, last, mu, storeMu, threadVars, pre,
                   ghostVars, countVars>>
    /\ UNCHANGED otherVars

\* the process ends with main
Exit ==
    /\ phase \in {"closed", "exiting"}
    /\ phase' = "down"
    /\ MemoryLost
    /\ UNCHANGED <<file, acked, tamper, countVars>>
    /\ UNCHANGED otherVars

\* Append's write and f.Sync() while the file is open
AppendWhileOpen(t) == phase # "closed" /\ AppendWrite(t)
SyncWhileOpen(t) == phase # "closed" /\ AppendSync(t)

\* bw.Flush() of Append on the closed file: f.Write returns os.ErrClosed and
\* no byte reaches the file
AppendOnClosed(t) == phase = "closed" /\ AppendWriteFail(t, 0)

\* f.Sync() of Append on the closed file returns os.ErrClosed
SyncOnClosed(t) == phase = "closed" /\ AppendSyncFail(t)

ShutdownNext ==
    \/ \E t \in Threads, c \in Commands : ExecLock(t, c)
    \/ \E t \in Threads : PeekLock(t)
    \/ \E t \in Threads : Peek(t)
    \/ \E t \in Threads : Validate(t)
    \/ \E t \in Threads : AppendWhileOpen(t)
    \/ \E t \in Threads : AppendOnClosed(t)
    \/ \E t \in Threads : SyncWhileOpen(t)
    \/ \E t \in Threads : SyncOnClosed(t)
    \/ \E t \in Threads : ApplyLock(t)
    \/ \E t \in Threads : ApplyStep(t)
    \/ \E t \in Threads : Finish(t)
    \/ Signal
    \/ ShutdownDrained
    \/ ShutdownTimeout
    \/ DeferredClose
    \/ Exit

ShutdownSpec == Init /\ [][ShutdownNext]_vars

(***************************************************************************)
(* Exec under a disk whose flush or fsync may fail, then Close and Open.   *)
(* The callers submit Puts only, so no Exec fails in Store.Apply.          *)
(***************************************************************************)
PutCommands == {Command(CmdPut, ClientA, MaxSeq, KeyK, v) : v \in Values}

AppendFailNext ==
    \/ \E t \in Threads, c \in PutCommands : ExecLock(t, c)
    \/ \E t \in Threads : PeekLock(t)
    \/ \E t \in Threads : Peek(t)
    \/ \E t \in Threads : Validate(t)
    \/ \E t \in Threads : AppendWrite(t)
    \/ \E t \in Threads : \E n \in FailLens(Encode(appRec(t)).frame) :
           AppendWriteFail(t, n)
    \/ \E t \in Threads : AppendSync(t)
    \/ \E t \in Threads : AppendSyncFail(t)
    \/ \E t \in Threads : ApplyLock(t)
    \/ \E t \in Threads : ApplyStep(t)
    \/ \E t \in Threads : Finish(t)
    \/ Close
    \/ Open

AppendFailSpec == Init /\ [][AppendFailNext]_vars

(***************************************************************************)
(* Properties                                                              *)
(***************************************************************************)
\* a step in which thread t moves while the process stays alive
StepOf(t) == pc'[t] # pc[t] /\ phase = "up" /\ phase' = "up"

\* a step in which thread t returns from Exec
ExecReturns(t) ==
    /\ StepOf(t)
    /\ pc[t] \in {"peek", "validate", "append", "apply", "finish"}
    /\ pc'[t] = "idle"

\* a step that is a call of Node.Open
OpenStep == opens' = opens + 1

\* the LogIndex of the last record in a file (0 if none)
LastDiskIndex(f) == ReplayLoop(f, Len(walHeader), <<>>, 0, NoFault).lastIndex

RECURSIVE EffectOf(_, _)
\* the key/value mapping that results from a list of commands
EffectOf(m, cmds) ==
    IF cmds = <<>> THEN m
    ELSE LET c == Head(cmds) IN
         EffectOf(IF c.Instruct = CmdPut THEN MapPut(m, c.Key, c.Value)
                  ELSE MapDelete(m, c.Key), Tail(cmds))

IsPrefix(a, b) == Len(a) <= Len(b) /\ SubSeq(b, 1, Len(a)) = a

\* C1: after any Execs, Node.Close and then Node.Open on the same dataDir,
\* Open succeeds, the rebuilt kv equals the kv in memory at close time, and
\* lastApplied and Node.lastIndex equal the last log index assigned.
C1_DurabilityRoundTrip ==
    [][(phase = "closed" /\ tamper.kind = "none" /\ OpenStep)
        => /\ phase' = "up"
           /\ kv' = kv
           /\ lastlogi' = LastDiskIndex(file)
           /\ last' = LastDiskIndex(file)]_vars

\* C2: after a crash at any point of any Exec the next Open succeeds and the
\* recovered state is the effect, in log order, of every command whose Exec
\* had returned success plus at most the one command that was in flight.
C2_CrashSafety ==
    [][(phase = "down" /\ tamper.kind = "none" /\ OpenStep)
        => /\ phase' = "up"
           /\ LET R == CmdsOf(DiskRecords(file')) IN
              /\ IsPrefix(acked, R)
              /\ Len(R) <= Len(acked) + 1
              /\ kv' = EffectOf(EmptyMap, R)
              /\ lastlogi' = Len(R)]_vars

\* C3: once Exec(c) has applied c and returned, dedup[c.clientId] holds
\* (c.seq, result of c); an Exec of the identical command right after it
\* returns the same result and leaves the log file at the same size.
C3_DedupEstablished ==
    [][\A t \in Threads :
         (ExecReturns(t) /\ ~ret'.err /\ ~ret'.hit)
         => /\ DedupAt(dedupMap', cmd[t].ClientID) =
                   [seq |-> cmd[t].Seq, result |-> ret'.res]
            /\ (ret.op = "exec" /\ ~ret.err /\ ret.cmd = cmd[t])
               => (ret'.res = ret.res /\ ret'.size = ret.size)]_vars

\* C4: an Exec of a command c with c.seq <= dedup[c.clientId].lastSeq takes
\* no step that changes the log, kv, lastApplied, Node.lastIndex or the dedup
\* table, and it returns dedup[c.clientId].lastResult without error at the
\* dedup peek.
C4_DedupHitNoOp ==
    [][\A t \in Threads :
         (/\ StepOf(t)
          /\ pc[t] \in {"peekLock", "peek"}
          /\ cmd[t].Seq <= DedupAt(dedupMap, cmd[t].ClientID).seq)
         => /\ UNCHANGED <<file, offset, kv, lastlogi, last, dedupMap>>
            /\ pc[t] = "peek"
               => /\ pc'[t] = "idle"
                  /\ ret'.op = "exec"
                  /\ ret'.cmd = cmd[t]
                  /\ ~ret'.err
                  /\ ret'.res = DedupAt(dedupMap, cmd[t].ClientID).result]_vars

\* a dedup hit has been returned by a node whose log holds records
C4_Witness ==
    /\ ret.op = "exec" /\ ret.hit /\ ~ret.err
    /\ Len(DiskRecords(file)) > 0
    /\ lastlogi > 0

\* C5: the log never contains two records with the same (clientId, seq).
C5_AtMostOnce ==
    LET R == DiskRecords(file) IN
    \A i, j \in 1..Len(R) :
        i # j => <<R[i].Cmd.ClientID, R[i].Cmd.Seq>>
                 # <<R[j].Cmd.ClientID, R[j].Cmd.Seq>>

\* C6: the logIndex values of the frames in the log file are exactly
\* 1, 2, ..., N.
C6_GapFreeIndexes ==
    LET R == DiskRecords(file) IN
    \A i \in 1..Len(R) : R[i].LogIndex = i

\* C7: junk of any length >= 1 appended to the tail while the node is down:
\* the next Open succeeds, recovers every record and truncates the file back
\* to the end of the last good frame.
C7_JunkTailRepair ==
    [][(tamper.kind = "junk" /\ OpenStep)
        => /\ phase' = "up"
           /\ file' = Slice(file, 0, tamper.good)
           /\ Len(DiskRecords(file')) = tamper.nrecs
           /\ lastlogi' = LastDiskIndex(file')]_vars

\* C8: the last frame's payload or CRC altered: replay discards that frame,
\* the earlier frames are recovered and applied, the file is truncated to
\* the end of the preceding frame and Open succeeds with lastApplied equal
\* to the index of the preceding frame.
C8_CorruptLastFrame ==
    [][(tamper.kind = "corrupt" /\ OpenStep)
        => /\ phase' = "up"
           /\ file' = Slice(file, 0, tamper.good)
           /\ Len(DiskRecords(file')) = tamper.nrecs
           /\ lastlogi' = LastDiskIndex(file')]_vars

\* C9: a Get that starts after an Exec on its key has returned success, with
\* no other Put/Delete applied to the key since, returns the value of that
\* Put, or NotFound after a Delete.
C9_ReadYourWrites ==
    (ret.op = "get" /\ ret.exp # Unacked)
    => IF ret.exp = NotFound THEN ret.err
       ELSE ~ret.err /\ ret.val = ret.exp.val

\* a Get has returned the acknowledged second value of the key while an
\* Exec on the same key is between its append and its apply
C9_Witness ==
    /\ ret.op = "get" /\ ret.exp = AckedValue(ValW) /\ ret.val = ValW
    /\ \E t \in Threads : pc[t] \in {"sync", "applyLock"} /\ cmd[t].Key = ret.key

\* C10: Exec of a Delete whose key is absent applies without error with
\* success=false and empty prevValue, advances lastApplied to the record's
\* index and records the result in dedup for the client.
C10_DeleteMissingLockstep ==
    [][\A t \in Threads :
         (/\ StepOf(t)
          /\ pc[t] = "apply"
          /\ cmd[t].Instruct = CmdDelete
          /\ cmd[t].Key \notin DOMAIN kv)
         => /\ pc'[t] = "finish"
            /\ ap'[t] = [Success |-> FALSE, PrevValue |-> <<>>,
                         LogIndex |-> nextIdx[t]]
            /\ lastlogi' = nextIdx[t]
            /\ DedupAt(dedupMap', cmd[t].ClientID) =
                   [seq |-> cmd[t].Seq, result |-> ap'[t]]]_vars

\* the arguments of the last direct call of Store.Apply, when it was made
\* at logIndex = lastApplied + 1
Applied(instruct) ==
    /\ ret.op = "apply"
    /\ cmd[Caller].Instruct = instruct
    /\ nextIdx[Caller] = pre.lastlogi + 1

\* C11: a Put applied at logIndex = lastApplied + 1 returns success with the
\* given logIndex and with prevValue empty if the key was absent, else the
\* value stored before; afterwards Get(key) returns the command's value and
\* lastApplied equals logIndex.
C11_PutSemantics ==
    Applied(CmdPut)
    => LET c == cmd[Caller] IN
       /\ ~ret.err
       /\ ap[Caller] = [Success |-> TRUE,
                        PrevValue |-> IF c.Key \in DOMAIN pre.kv
                                      THEN pre.kv[c.Key] ELSE <<>>,
                        LogIndex |-> nextIdx[Caller]]
       /\ StoreGet(Store, c.Key) = [val |-> c.Value, err |-> FALSE]
       /\ lastlogi = nextIdx[Caller]

\* a Put has overwritten the value another Put had stored
C11_Witness ==
    /\ Applied(CmdPut)
    /\ cmd[Caller].Value = ValW
    /\ ap[Caller].PrevValue = ValV
    /\ lastlogi = 2

\* C12: a Delete of a present key applied at logIndex = lastApplied + 1
\* returns success with prevValue the value stored before, removes the
\* mapping (Get fails with NotFound), sets lastApplied to logIndex and leaves
\* every other key's mapping alone.
C12_DeleteExisting ==
    (Applied(CmdDelete) /\ cmd[Caller].Key \in DOMAIN pre.kv)
    => LET c == cmd[Caller] IN
       /\ ~ret.err
       /\ ap[Caller] = [Success |-> TRUE, PrevValue |-> pre.kv[c.Key],
                        LogIndex |-> nextIdx[Caller]]
       /\ StoreGet(Store, c.Key).err
       /\ lastlogi = nextIdx[Caller]
       /\ DOMAIN kv = DOMAIN pre.kv \ {c.Key}
       /\ \A k \in DOMAIN kv : kv[k] = pre.kv[k]

\* a Delete has removed one key while the other key keeps its value
C12_Witness ==
    /\ Applied(CmdDelete)
    /\ ap[Caller].Success
    /\ ap[Caller].PrevValue = ValV
    /\ cmd[Caller].Key = KeyK
    /\ KeyJ \in DOMAIN kv
    /\ kv[KeyJ] = ValW

\* a step of thread t inside Node.Get
GetStep(t) ==
    /\ StepOf(t)
    /\ pc[t] \in {"getLock", "get"} \/ pc'[t] = "getLock"

\* C13: Get(key) returns the current value when the key is present and
\* fails with NotFound when it is absent; no step of it changes kv,
\* lastApplied, dedup, Node.lastIndex or the log.
C13_GetPureRead ==
    [][\A t \in Threads :
         GetStep(t)
         => /\ UNCHANGED <<kv, lastlogi, dedupMap, last, file, offset>>
            /\ pc[t] = "get"
               => /\ ret'.op = "get"
                  /\ ret'.key = getKey[t]
                  /\ IF getKey[t] \in DOMAIN kv
                     THEN ~ret'.err /\ ret'.val = kv[getKey[t]]
                     ELSE ret'.err]_vars

\* a Get has failed with NotFound on a store that a Put and a Delete went
\* through
C13_Witness ==
    /\ ret.op = "get"
    /\ ret.err
    /\ lastlogi = 2
    /\ kv = EmptyMap

\* the state right after an Exec has returned: ret and pre are its return
\* and what it found when it was called
ExecReturned == ret.op = "exec" /\ mu = NoThread

\* nothing of the log and the store differs from what the call found
SameAsBefore ==
    /\ file = pre.file
    /\ offset = pre.offset
    /\ kv = pre.kv
    /\ lastlogi = pre.lastlogi
    /\ dedupMap = pre.dedupMap
    /\ last = pre.last

\* a command that must not reach the log
InvalidCommand(c) ==
    \/ ~validType(c.Instruct)
    \/ Len(c.ClientID) > MaxUint8
    \/ Len(c.Key) > MaxUint16
    \/ Len(c.Value) \div (MaxUint16 + 1) > MaxUint16

\* a key of 65536 bytes is refused by Encode, the step of Append that
\* comes before any write
LongKey == [i \in 1..(MaxUint16 + 1) |-> 107]
LongKeyRefused ==
    Encode([LogIndex |-> 1, Cmd |-> Command(CmdPut, ClientA, 1, LongKey, ValV)]).err

\* C14: an Exec that is not a dedup hit and whose instruction is neither Put
\* nor Delete, or whose clientId, key or value is too long to encode,
\* returns an error and leaves the log file, tailOffset, kv, lastApplied,
\* dedup and Node.lastIndex as they were.
C14_InvalidNeverLogged ==
    /\ LongKeyRefused
    /\ (ExecReturned /\ ~ret.hit /\ InvalidCommand(ret.cmd))
       => (ret.err /\ SameAsBefore)

\* a command with a clientId of 256 bytes has been refused by a node whose
\* log already holds a record
C14_Witness ==
    /\ ExecReturned
    /\ ret.cmd.ClientID = LongClient
    /\ ret.err
    /\ Len(DiskRecords(file)) = 1
    /\ lastlogi = 1

\* C15: Exec of a command with an empty clientId, an empty key or seq = 0
\* returns an error, is not treated as a dedup hit, appends nothing and
\* changes no store state.
C15_EmptyFieldsRejected ==
    (/\ ExecReturned
     /\ \/ ret.cmd.ClientID = <<>>
        \/ ret.cmd.Key = <<>>
        \/ ret.cmd.Seq = 0)
    => (ret.err /\ ~ret.hit /\ SameAsBefore)

\* C16: if Log.Append fails at any step (encode, buffered write, flush or
\* fsync), Exec returns the error and tailOffset, Node.lastIndex, kv,
\* lastApplied and dedup equal their values before the call; tailOffset is
\* advanced, by the frame size, only after fsync has returned success.
C16_FailedAppendNoChange ==
    /\ (ExecReturned /\ ret.at \in {"append", "sync"})
       => /\ ret.err
          /\ offset = pre.offset
          /\ last = pre.last
          /\ kv = pre.kv
          /\ lastlogi = pre.lastlogi
          /\ dedupMap = pre.dedupMap
    /\ \A t \in Threads :
         /\ pc[t] \in {"peekLock", "peek", "validate", "append", "sync"}
            => offset = pre.offset
         /\ pc[t] \in {"applyLock", "apply", "finish"}
            => offset = pre.offset + Len(Encode(appRec(t)).frame)

\* f.Sync() has failed for the second record: its frame is in the file and
\* tailOffset still is the end of the first
C16_Witness ==
    /\ ExecReturned
    /\ ret.at = "sync"
    /\ ret.err
    /\ lastlogi = 1
    /\ offset < Len(file)
    /\ offset = pre.offset

\* the positions of a thread inside Exec, from the dedup peek to the return
ExecPcs == {"peekLock", "peek", "validate", "append", "sync", "applyLock",
            "apply", "finish"}

RECURSIVE IsSubseq(_, _)
\* a is b with some elements left out
IsSubseq(a, b) ==
    IF a = <<>> THEN TRUE
    ELSE IF b = <<>> THEN FALSE
    ELSE IF Head(a) = Head(b) THEN IsSubseq(Tail(a), Tail(b))
    ELSE IsSubseq(a, Tail(b))

\* C17: at most one Exec is at any time between its dedup peek and its
\* update of Node.lastIndex, appends never interleave, and the records
\* appear in the log in the order in which their commands are applied.
C17_WritesSerialized ==
    /\ \A t, u \in Threads :
         (pc[t] \in ExecPcs /\ pc[u] \in ExecPcs) => t = u
    /\ \A t \in Threads :
         /\ pc[t] \in ExecPcs => mu = t
         /\ pc[t] \in {"sync", "applyLock", "apply"}
            => LET fr == Encode(appRec(t)).frame
               IN Slice(file, cursor - Len(fr), cursor) = fr
    /\ phase = "up" => IsSubseq(acked, CmdsOf(DiskRecords(file)))

\* the second thread is about to apply the record it appended behind the
\* record of the first
C17_Witness ==
    /\ pc["t2"] = "apply"
    /\ nextIdx["t2"] = 2
    /\ acked # <<>>
    /\ Len(DiskRecords(file)) = 2

\* C18: two threads call Exec with the same (clientId, seq) command at the
\* same time: Node.mu lets one run after the other, so the second call finds
\* the return of the first; with no I/O error in Append, exactly one record
\* is appended, the store is mutated once and both calls return the same
\* result.
C18_ConcurrentDuplicates ==
    [][\A t \in Threads :
         (/\ ExecReturns(t)
          /\ pc[t] \notin {"append", "sync"}
          /\ ret.op = "exec"
          /\ ret.at = "finish"
          /\ ret.cmd = cmd[t])
         => /\ ~ret'.err
            /\ ret'.res = ret.res
            /\ file' = pre.file
            /\ kv' = pre.kv
            /\ lastlogi' = pre.lastlogi]_vars

\* C19: a second Node.Close on an already closed node returns success
\* without error and changes nothing.
C19_CloseIdempotent ==
    (phase = "closed" /\ ret.op = "close") => ~ret.err

\* C20: a well-formed POST /delete accepted by the router is forwarded to
\* the node selected by the key hash, the node a Put and a Get of the key go
\* to, and results in Node.Exec of a Delete command for the key on that node.
C20_DeleteReachesExec ==
    (/\ http.stage = "done"
     /\ http.req.method = "POST"
     /\ http.req.path = "/delete"
     /\ http.node # -1
     /\ http.status # 502)
    => /\ http.node = routerHandlePut(http.req).node
       /\ [node |-> http.node, call |-> "Exec", instruct |-> CmdDelete,
           key |-> http.req.key] \in execd

\* the records of the log: the frames between the header and tailOffset
LogRecords == DiskRecords(Slice(file, 0, offset))

\* C21: whenever the Node lock is free, Node.lastIndex = Store.lastApplied =
\* the number of records in the log, and an Exec that appends stamps its
\* record with logIndex = Store.lastApplied + 1 as of that moment.
C21_IndexLockstep ==
    /\ (phase = "up" /\ mu = NoThread)
       => /\ last = lastlogi
          /\ lastlogi = Len(LogRecords)
    /\ \A t \in Threads :
         pc[t] \in {"append", "sync", "applyLock", "apply"}
         => nextIdx[t] = lastlogi + 1

RECURSIVE LargestIndex(_)
\* the largest LogIndex among records, 0 if there is none
LargestIndex(recs) ==
    IF recs = <<>> THEN 0
    ELSE Max(Head(recs).LogIndex, LargestIndex(Tail(recs)))

\* C22: after a successful Node.Open, Store.lastApplied and Node.lastIndex
\* both equal the largest logIndex among the records remaining in the
\* (possibly repaired) log, or 0 if the log holds no record.
C22_OpenSetsIndexes ==
    [][(OpenStep /\ phase' = "up")
        => /\ lastlogi' = LargestIndex(DiskRecords(file'))
           /\ last' = LargestIndex(DiskRecords(file'))]_vars

\* a node has been opened on a log that keeps one record of two frame
\* writes
C22_Witness ==
    /\ opens = 1
    /\ phase = "up"
    /\ ret = NoRet
    /\ appends = 2
    /\ lastlogi = 1
    /\ last = 1
    /\ DOMAIN kv = {KeyK}

\* the largest Seq among the commands of client c in a list of commands
LargestSeq(cmds, c) ==
    LET S == {cmds[i].Seq : i \in {j \in 1..Len(cmds) : cmds[j].ClientID = c}}
    IN IF S = {} THEN 0 ELSE CHOOSE m \in S : \A x \in S : x <= m

\* C23: for every client c, dedup[c].lastSeq equals the largest seq of any
\* command of c that has been applied, it never decreases, and no command
\* of c with seq <= dedup[c].lastSeq is applied again.
C23_DedupTable ==
    [][/\ (phase' = "up" /\ mu' = NoThread)
          => \A c \in Clients :
                DedupAt(dedupMap', c).seq = LargestSeq(acked', c)
       /\ (phase = "up" /\ phase' = "up")
          => \A c \in Clients :
                DedupAt(dedupMap', c).seq >= DedupAt(dedupMap, c).seq
       /\ \A t \in Threads :
            (StepOf(t) /\ pc[t] = "apply" /\ pc'[t] = "finish")
            => cmd[t].Seq > DedupAt(dedupMap, cmd[t].ClientID).seq]_vars

\* the table holds an entry of c's own client that covers c's seq
OwnEntry(dm, c) == c.ClientID \in DOMAIN dm /\ dm[c.ClientID].seq >= c.Seq

C25_OutOfOrderRejected ==
    (/\ ret.op = "apply"
     /\ \/ nextIdx[Caller] # pre.lastlogi + 1
        \/ ~validType(cmd[Caller].Instruct))
    => /\ ret.err
       /\ kv = pre.kv
       /\ lastlogi = pre.lastlogi
       /\ dedupMap = pre.dedupMap

\* C26: Exec holds the Store lock for the dedup peek and for Apply only,
\* never while Log.Append is running, so a Get that arrives while an Exec is
\* in Append (fsync) finds the Store lock free of that Exec and completes.
C26_NoStoreLockAcrossAppend ==
    \A t \in Threads :
        /\ pc[t] \in {"peek", "apply"} => storeMu = t
        /\ pc[t] \in {"validate", "append", "sync", "applyLock", "finish"}
           => storeMu # t
        /\ pc[t] \in {"append", "sync"}
           => \A u \in Threads :
                 pc[u] = "getLock" => (storeMu = NoThread /\ ENABLED GetLock(u))

\* a Get is reading under the Store lock while an Exec waits for its fsync
C26_Witness ==
    /\ pc["t1"] = "sync"
    /\ pc["t2"] = "get"
    /\ storeMu = "t2"
    /\ mu = "t1"

\* C27: a thread takes the Store lock after the Node lock, never the other
\* way round; a caller that has returned holds no lock; and with fair
\* scheduling and an Append that returns, every call of Exec and Get
\* eventually returns.
C27_NoDeadlock ==
    /\ [][\A t \in Threads :
            /\ (storeMu' = t /\ storeMu # t /\ t \in InExec) => mu = t
            /\ (mu' = t /\ mu # t) => storeMu # t]_vars
    /\ [](\A t \in Threads : pc[t] = "idle" => (mu # t /\ storeMu # t))
    /\ \A t \in Threads : (pc[t] # "idle") ~> (pc[t] = "idle")

\* one caller waits for the Node lock while the other holds both locks
C27_Witness ==
    /\ pc["t1"] = "execLock"
    /\ pc["t2"] = "apply"
    /\ mu = "t2"
    /\ storeMu = "t2"

\* C28: after every Log operation has returned (Open, ReplayAll with or
\* without repair, Append success, Append failure) tailOffset equals the
\* offset at which the next frame will be written, it equals the end of the
\* last valid frame, and every frame between the header and tailOffset
\* passes the length and CRC checks and decodes.
C28_TailOffsetAccurate ==
    (phase = "up" /\ mu = NoThread)
    => /\ ~bwErr => offset = cursor
       /\ offset = GoodEnd(file)
       /\ GoodEnd(Slice(file, 0, offset)) = offset

\* C29: when ReplayAll stops at a clean end of file the file contents and
\* size are unchanged; an Open (and Close) right after an Open, with no
\* Exec in between, yields the same kv, lastApplied and file bytes, and
\* after a repairing Open a further Open truncates nothing.
C29_ReplayKeepsIntactLog ==
    [][OpenStep
        => /\ CleanTail(file) => file' = file
           /\ phase' = "up"
              => \E again \in {OpenNode(file', NoFault)} :
                    /\ ~again.err
                    /\ again.file = file'
                    /\ again.store.kv = kv'
                    /\ again.store.lastlogi = lastlogi'
                    /\ again.last = last']_vars

\* a node has been opened on an intact log of two records
C29_Witness ==
    /\ opens = 1
    /\ phase = "up"
    /\ ret = NoRet
    /\ lastlogi = 2
    /\ Len(DiskRecords(file)) = 2
    /\ CleanTail(file)
    /\ offset = Len(file)

Headed(f) == IF f = <<>> THEN walHeader ELSE f
HeaderOk(f) == f = <<>> \/ ReadAt(f, 0, Len(walHeader)).bytes = walHeader
\* the failed OpenNode left nothing of a Node behind
NoNode ==
    /\ kv' = EmptyMap /\ lastlogi' = 0 /\ dedupMap' = EmptyMap /\ last' = 0
    /\ cursor' = 0 /\ offset' = 0

\* C31: replay has three outcomes. A read of a frame that fails with an
\* error other than end-of-file makes ReplayAll and OpenNode fail with that
\* error and leaves the file as it was; the file is cut only when its tail
\* is torn or corrupt, and then to the end of the last good frame; a log
\* that ends cleanly is left alone.
C31_ReplayOutcomes ==
    [][\A fault \in DiskFaults \cup {NoFault} :
         (OpenWith(fault) /\ HeaderOk(file))
         => LET g == Headed(file)
                n == Len(DiskRecords(g))
            IN /\ (/\ fault.op = "ReadAt"
                   /\ \/ fault.frame < n
                      \/ fault.frame = n /\ fault.part = "hdr")
                  => ret' = OpenRet("ReadAt")
               /\ ret' = OpenRet("ReadAt")
                  => /\ fault.op = "ReadAt"
                     /\ phase' = "failed"
                     /\ file' = g
                     /\ NoNode
               /\ file' # g
                  => /\ GoodEnd(g) < Len(g)
                     /\ file' = Slice(g, 0, GoodEnd(g))
                     /\ ret' # OpenRet("ReadAt")
               /\ (fault = NoFault /\ CleanTail(g))
                  => /\ file' = g
                     /\ ret'.at \in {"", "Apply"}]_vars

\* OpenNode has failed with the read error on a log whose tail is corrupt,
\* and the corrupt tail is still in the file
C31_Witness ==
    /\ phase = "failed"
    /\ ret = OpenRet("ReadAt")
    /\ Len(DiskRecords(file)) = 1
    /\ GoodEnd(file) + 4 <= Len(file)
    /\ opens = 1

\* C32: NewWAL on an empty (or just created) file writes the 9-byte header
\* and sets the offset to 9; on a file that is not empty and whose first 9
\* bytes are not the header literal, or that is shorter than 9 bytes, it
\* fails: the file keeps its bytes and the caller gets no Node.
C32_OpenOrCreate ==
    [][\A fault \in DiskFaults \cup {NoFault} :
         OpenWith(fault)
         => /\ file = <<>>
               => /\ file' = walHeader
                  /\ fault = NoFault
                     => /\ phase' = "up"
                        /\ offset' = 9
                        /\ cursor' = 9
                        /\ kv' = EmptyMap
                        /\ last' = 0
            /\ (/\ file # <<>>
                /\ \/ Len(file) < Len(walHeader)
                   \/ SubSeq(file, 1, Len(walHeader)) # walHeader)
               => /\ file' = file
                  /\ ret' = OpenRet("NewWAL")
                  /\ phase' \in {"failed", "leaked"}
                  /\ NoNode]_vars

\* OpenNode has refused a file that holds a frame behind a damaged header,
\* and the file still holds all its bytes
C32_Witness ==
    /\ ret = OpenRet("NewWAL")
    /\ file = BadHeader \o FramesFrom(<<PutKV>>, 1)
    /\ opens = 1
    /\ phase # "up"

EndsWith(f, t) ==
    Len(t) <= Len(f) /\ SubSeq(f, Len(f) - Len(t) + 1, Len(f)) = t
\* f is a log of whole valid frames followed by one structurally bad frame
BadTrailer(f) ==
    /\ HeaderOk(f)
    /\ f # <<>>
    /\ \E t \in StructTails :
          /\ EndsWith(f, t)
          /\ Len(walHeader) <= Len(f) - Len(t)
          /\ CleanTail(Slice(f, 0, Len(f) - Len(t)))
          /\ GoodEnd(f) = Len(f) - Len(t)

\* C34: a trailing frame with a frameLen below 4 or above 2^30, with a body
\* shorter than its frameLen, or with a matching CRC over a payload that
\* under-runs a field or carries an instruction other than 1 or 2, is a
\* corrupt tail: the file is truncated to the end of the last good frame,
\* OpenNode succeeds and the earlier records are applied.
C34_BadTrailerHealed ==
    [][(Open /\ BadTrailer(file))
        => /\ file' = Slice(file, 0, GoodEnd(file))
           /\ phase' = "up"
           /\ acked' = CmdsOf(DiskRecords(file))
           /\ lastlogi' = LastDiskIndex(file)
           /\ last' = LastDiskIndex(file)
           /\ offset' = Len(file')]_vars

\* C35: Node.Close is invoked only after srv.Shutdown has returned; every
\* Exec acknowledged so far has its record in the file when the log is
\* closed; and once the log is closed no Exec is acknowledged as
\* successful.
C35_ShutdownOrdering ==
    [][/\ (phase' \in {"closed", "exiting"} /\ phase' # phase)
          => /\ phase = "stopped"
             /\ IsSubseq(acked, CmdsOf(DiskRecords(file)))
       /\ phase = "closed" => acked' = acked]_vars

\* C36: the bytes Get returns and the PrevValue bytes Apply returns (on a
\* dedup hit too) are the caller's own, and the bytes in kv and in the
\* dedup table are not the caller's: when the caller overwrites an array
\* it passed in or received, kv and the dedup table stay as they are, so
\* every later Get and every later dedup hit returns what it would have.
C36_NoAliasing ==
    [][mem'.touched # mem.touched
        => /\ kv' = kv
           /\ dedupMap' = dedupMap
           /\ \A k \in Keys : StoreGet(Store, k) =
                 StoreGet([kv |-> kv', lastlogi |-> lastlogi',
                           dedupMap |-> dedupMap'], k)
           /\ \A c \in AliasCommands :
                 Apply(Store, c, lastlogi + 1).res =
                 Apply([kv |-> kv', lastlogi |-> lastlogi',
                        dedupMap |-> dedupMap'], c, lastlogi' + 1).res]_vars

\* the caller has overwritten the array of a cmd.Value it passed to a Put
\* and an array it received, and the Get after that returned the value put
C36_Witness ==
    /\ mem.touched \cap mem.passed # {}
    /\ mem.touched \cap mem.received # {}
    /\ ret.op = "get"
    /\ ~ret.err
    /\ ret.val = cmd[Caller].Value
    /\ cmd[Caller].Instruct = CmdPut
    /\ ret.val \in Values

RECURSIVE IndexesOf(_)
IndexesOf(recs) ==
    IF recs = <<>> THEN <<>>
    ELSE <<Head(recs).LogIndex>> \o IndexesOf(Tail(recs))
\* no two elements of the sequence are equal
Distinct(q) == \A i, j \in 1..Len(q) : i # j => q[i] # q[j]

\* C37: the bytes a failed Append left in the file do no harm: the log
\* never holds two frames with the same logIndex, and the next Open
\* succeeds and recovers every Exec that returned success, those after the
\* failed one too.
C37_FailedAppendHarmless ==
    [][/\ Distinct(IndexesOf(DiskRecords(file')))
       /\ OpenStep
          => /\ phase' = "up"
             /\ IsSubseq(acked, CmdsOf(DiskRecords(file')))
             /\ acked # <<>> => /\ KeyK \in DOMAIN kv'
                                /\ kv'[KeyK] = acked[Len(acked)].Value]_vars

\* the records a frame of the files can hold
RecordUniverse ==
    {[LogIndex |-> i, Cmd |-> c] : i \in 1..(MaxFrames + 1), c \in ReplayCommands}
\* f holds the bytes b at offset off
HoldsAt(f, off, b) ==
    off + Len(b) <= Len(f) /\ SubSeq(f, off + 1, off + Len(b)) = b
RECURSIVE RunFrom(_, _)
\* the longest run of consecutive frames of records that starts at off,
\* found by encoding: [recs, end]
RunFrom(f, off) ==
    LET here == {r \in RecordUniverse : HoldsAt(f, off, Frame(EncodePayload(r)))}
    IN IF here = {} THEN [recs |-> <<>>, end |-> off]
       ELSE LET r == CHOOSE x \in here : TRUE
                rest == RunFrom(f, off + Len(Frame(EncodePayload(r))))
            IN [recs |-> <<r>> \o rest.recs, end |-> rest.end]

\* C38: replay recovers exactly the longest run of consecutive valid frames
\* that starts behind the header, in file order; it does not step over an
\* invalid frame, and whatever lies behind the first invalid frame, whole
\* frames too, is cut off.
C38_LongestValidPrefix ==
    [][(Open /\ HeaderOk(file))
        => \E run \in {RunFrom(Headed(file), Len(walHeader))} :
             /\ \/ file' = Slice(Headed(file), 0, run.end)
                \/ file' = Headed(file) /\ Len(file') - run.end < 4
             /\ DiskRecords(file') = run.recs
             /\ phase' = "up"
                => /\ acked' = CmdsOf(run.recs)
                   /\ kv' = EffectOf(EmptyMap, CmdsOf(run.recs))
                   /\ last' = LargestIndex(run.recs)
                   /\ lastlogi' = Len(run.recs)
                   /\ offset' = run.end]_vars

\* OpenNode has succeeded on a file in which a whole frame followed a frame
\* replay could not accept: one record is recovered and the file ends
\* behind its frame
C38_Witness ==
    /\ phase = "up"
    /\ opens = 1
    /\ \E b \in Followed : EndsWith(pre.file, b)
    /\ Len(acked) = 1
    /\ file = walHeader \o FramesFrom(acked, 1)
    /\ offset = Len(file)

\* C39: inside Exec, Store.Apply runs only after Log.Append has returned
\* success: when the store is changed, the frame of the command is in the
\* file and fsynced (wal.offset has moved over it); nothing else changes kv
\* or lastApplied of a running node; and a value a Get returns is the value
\* of a Put record in the log.
C39_JournalBeforeVisible ==
    [][/\ \A t \in Threads :
            (StepOf(t) /\ pc[t] = "apply")
            => \E fr \in {Encode(appRec(t)).frame} :
                  /\ Len(walHeader) + Len(fr) <= cursor
                  /\ HoldsAt(file, cursor - Len(fr), fr)
                  /\ offset = pre.offset + Len(fr)
       /\ (phase = "up" /\ phase' = "up" /\ (kv' # kv \/ lastlogi' # lastlogi))
          => \E t \in Threads : StepOf(t) /\ pc[t] = "apply"
       /\ \A t \in Threads :
            (StepOf(t) /\ pc[t] = "get" /\ ~ret'.err)
            => \E i \in 1..Len(DiskRecords(file)) :
                  /\ DiskRecords(file)[i].Cmd.Instruct = CmdPut
                  /\ DiskRecords(file)[i].Cmd.Key = ret'.key
                  /\ DiskRecords(file)[i].Cmd.Value = ret'.val]_vars

\* a Get has returned the value of the acknowledged Put while the frame of
\* a second Put on the key is written and not yet fsynced
C39_Witness ==
    /\ phase = "up"
    /\ ret.op = "get"
    /\ ~ret.err
    /\ ret.val = ValV
    /\ pc["t1"] = "sync"
    /\ cmd["t1"] = Command(CmdPut, ClientA, MaxSeq, KeyK, ValW)
    /\ Len(acked) = 1

====
